---------------------------- MODULE Spec2Model ----------------------------
(***************************************************************************)
(* Model of the report-app form (src/report-app/src/App.tsx, last variant, *)
(* lines 723-2215, and the marker variant in src/unnamed/part_000): the    *)
(* payload codecs (marker, zero-width, legacy), the Binary/Text bridge,    *)
(* schema reconciliation, and the App's state with its restore pipeline.   *)
(*                                                                         *)
(* Text is a sequence of UTF-16 code units (naturals below 65536), as a    *)
(* JavaScript string is.  A byte string ("binary string") is a sequence of *)
(* naturals below 256.                                                     *)
(***************************************************************************)
EXTENDS Integers, Sequences, FiniteSets, TLC

(***************************************************************************)
(* Sequence helpers.                                                       *)
(***************************************************************************)
Range(s) == { s[i] : i \in 1..Len(s) }

RECURSIVE Flatten(_)
Flatten(ss) ==
    IF ss = <<>> THEN <<>>
    ELSE IF Len(ss) = 1 THEN ss[1]
    ELSE LET h == Len(ss) \div 2
         IN  Flatten(SubSeq(ss, 1, h)) \o Flatten(SubSeq(ss, h + 1, Len(ss)))

\* pat occurs in s starting at index i
MatchAt(s, i, pat) ==
    /\ i >= 1
    /\ i + Len(pat) - 1 <= Len(s)
    /\ \A k \in 1..Len(pat) : s[i + k - 1] = pat[k]

\* least index >= from at which pat occurs in s, 0 when there is none
IndexOf(s, pat, from) ==
    LET hits == { i \in from..(Len(s) - Len(pat) + 1) : MatchAt(s, i, pat) }
    IN  IF hits = {} THEN 0 ELSE CHOOSE i \in hits : \A j \in hits : i <= j

Min(a, b) == IF a <= b THEN a ELSE b

(***************************************************************************)
(* Character classes.                                                      *)
(***************************************************************************)
IsDigit(c) == c \in 48..57
IsUpper(c) == c \in 65..90
IsLower(c) == c \in 97..122
\* [A-Za-z0-9+/]
IsB64Char(c) == IsDigit(c) \/ IsUpper(c) \/ IsLower(c) \/ c = 43 \/ c = 47
\* [0-9a-f]
IsHexLower(c) == IsDigit(c) \/ c \in 97..102
\* the regular expression class \s of ECMAScript (WhiteSpace and LineTerminator)
IsJsSpace(c) ==
    c \in {9, 10, 11, 12, 13, 32, 160, 5760, 8232, 8233, 8239, 8287, 12288, 65279}
      \cup (8192..8202)
\* ASCII whitespace, which atob removes before decoding
IsAsciiSpace(c) == c \in {9, 10, 12, 13, 32}

(***************************************************************************)
(* btoa / atob (the host's base64 over binary strings).  A result is       *)
(* [ok |-> TRUE, v |-> text], or Thrown when the host function throws.     *)
(***************************************************************************)
Thrown == [ok |-> FALSE, v |-> <<>>]
Ok(v) == [ok |-> TRUE, v |-> v]

B64Char(i) ==
    IF i < 26 THEN 65 + i
    ELSE IF i < 52 THEN 71 + i
    ELSE IF i < 62 THEN i - 4
    ELSE IF i = 62 THEN 43 ELSE 47

B64Val(c) ==
    IF IsUpper(c) THEN c - 65
    ELSE IF IsLower(c) THEN c - 71
    ELSE IF IsDigit(c) THEN c + 4
    ELSE IF c = 43 THEN 62 ELSE 63

\* btoa: throws InvalidCharacterError when a code unit is above 0xFF
btoa(bin) ==
    IF \E i \in 1..Len(bin) : bin[i] > 255 THEN Thrown
    ELSE LET n == Len(bin)
             groups == (n + 2) \div 3
             byte(k) == IF k <= n THEN bin[k] ELSE 0
             val(g) == byte(3*g + 1) * 65536 + byte(3*g + 2) * 256 + byte(3*g + 3)
             sextet(g, j) ==
                 CASE j = 0 -> val(g) \div 262144
                   [] j = 1 -> (val(g) \div 4096) % 64
                   [] j = 2 -> (val(g) \div 64) % 64
                   [] OTHER -> val(g) % 64
             ch(k) ==
                 LET g == (k - 1) \div 4
                     j == (k - 1) % 4
                 IN  IF (j = 2 /\ 3*g + 2 > n) \/ (j = 3 /\ 3*g + 3 > n)
                     THEN 61
                     ELSE B64Char(sextet(g, j))
         IN  Ok([k \in 1..(4 * groups) |-> ch(k)])

\* atob: the forgiving-base64 decode of the HTML standard
atob(s) ==
    LET t == SelectSeq(s, LAMBDA c : ~IsAsciiSpace(c))
        lt == Len(t)
        u == IF lt % 4 = 0 /\ lt >= 1 /\ t[lt] = 61
             THEN IF lt >= 2 /\ t[lt - 1] = 61
                  THEN SubSeq(t, 1, lt - 2)
                  ELSE SubSeq(t, 1, lt - 1)
             ELSE t
        n == Len(u)
    IN  IF n % 4 = 1 THEN Thrown
        ELSE IF \E i \in 1..n : ~IsB64Char(u[i]) THEN Thrown
        ELSE LET sx(k) == IF k <= n THEN B64Val(u[k]) ELSE 0
                 val(g) == sx(4*g + 1) * 262144 + sx(4*g + 2) * 4096
                           + sx(4*g + 3) * 64 + sx(4*g + 4)
                 byte(i) ==
                     LET g == (i - 1) \div 3
                         r == (i - 1) % 3
                     IN  CASE r = 0 -> val(g) \div 65536
                           [] r = 1 -> (val(g) \div 256) % 256
                           [] OTHER -> val(g) % 256
             IN  Ok([i \in 1..((n * 6) \div 8) |-> byte(i)])

(***************************************************************************)
(* TextEncoder.encode / TextDecoder.decode (UTF-8).                        *)
(***************************************************************************)
IsHighSurrogate(c) == c \in 55296..56319
IsLowSurrogate(c) == c \in 56320..57343

Utf8OfCodePoint(cp) ==
    IF cp < 128 THEN <<cp>>
    ELSE IF cp < 2048 THEN <<192 + (cp \div 64), 128 + (cp % 64)>>
    ELSE IF cp < 65536
         THEN <<224 + (cp \div 4096), 128 + ((cp \div 64) % 64), 128 + (cp % 64)>>
    ELSE <<240 + (cp \div 262144), 128 + ((cp \div 4096) % 64),
           128 + ((cp \div 64) % 64), 128 + (cp % 64)>>

\* _te.encode(str): a paired surrogate gives one 4-byte sequence, a lone
\* surrogate is replaced by U+FFFD
TextEncode(str) ==
    LET n == Len(str)
        part(i) ==
            LET c == str[i]
            IN  IF IsHighSurrogate(c)
                THEN IF i < n /\ IsLowSurrogate(str[i + 1])
                     THEN Utf8OfCodePoint(65536 + (c - 55296) * 1024
                                          + (str[i + 1] - 56320))
                     ELSE Utf8OfCodePoint(65533)
                ELSE IF IsLowSurrogate(c)
                THEN IF i > 1 /\ IsHighSurrogate(str[i - 1])
                     THEN <<>>
                     ELSE Utf8OfCodePoint(65533)
                ELSE Utf8OfCodePoint(c)
    IN  Flatten([i \in 1..n |-> part(i)])

UnitsOfCodePoint(cp) ==
    IF cp < 65536 THEN <<cp>>
    ELSE <<55296 + ((cp - 65536) \div 1024), 56320 + ((cp - 65536) % 1024)>>

\* The UTF-8 decoder of the Encoding standard in replacement mode.  Its
\* state: the continuation bytes needed and seen, the code point so far, the
\* bounds of the next continuation byte, and the output.
Utf8Start(out) ==
    [need |-> 0, seen |-> 0, cp |-> 0, lo |-> 128, hi |-> 191, out |-> out]

\* a byte read with no sequence open
Utf8Lead(st, x) ==
    IF x < 128 THEN Utf8Start(Append(st.out, x))
    ELSE IF x \in 194..223
    THEN [st EXCEPT !.need = 1, !.cp = x % 32]
    ELSE IF x \in 224..239
    THEN [st EXCEPT !.need = 2, !.cp = x % 16,
                    !.lo = IF x = 224 THEN 160 ELSE 128,
                    !.hi = IF x = 237 THEN 159 ELSE 191]
    ELSE IF x \in 240..244
    THEN [st EXCEPT !.need = 3, !.cp = x % 8,
                    !.lo = IF x = 240 THEN 144 ELSE 128,
                    !.hi = IF x = 244 THEN 143 ELSE 191]
    ELSE Utf8Start(Append(st.out, 65533))

\* one byte: a byte outside the bounds ends the open sequence with U+FFFD
\* and is then read again as a lead byte
Utf8Step(st, x) ==
    IF st.need = 0 THEN Utf8Lead(st, x)
    ELSE IF x \notin st.lo..st.hi
    THEN Utf8Lead(Utf8Start(Append(st.out, 65533)), x)
    ELSE LET cp2 == (st.cp * 64) + (x % 64)
         IN  IF st.seen + 1 # st.need
             THEN [st EXCEPT !.seen = st.seen + 1, !.cp = cp2,
                             !.lo = 128, !.hi = 191]
             ELSE Utf8Start(st.out \o UnitsOfCodePoint(cp2))

\* the bytes b[from..to] read in order, starting in state st
RECURSIVE Utf8Run(_, _, _, _)
Utf8Run(b, from, to, st) ==
    IF from > to THEN st
    ELSE IF from = to THEN Utf8Step(st, b[from])
    ELSE LET mid == (from + to) \div 2
             left == Utf8Run(b, from, mid, st)
         IN  IF left.need >= 0 THEN Utf8Run(b, mid + 1, to, left) ELSE left

\* _td.decode(bytes) with the constructor's defaults: fatal = false (an
\* invalid sequence becomes U+FFFD, nothing is thrown) and ignoreBOM = false
\* (a leading byte order mark is dropped)
TextDecode(bytes) ==
    LET start == IF Len(bytes) >= 3 /\ bytes[1] = 239 /\ bytes[2] = 187
                    /\ bytes[3] = 191
                 THEN 4 ELSE 1
        end == Utf8Run(bytes, start, Len(bytes), Utf8Start(<<>>))
    IN  IF end.need # 0 THEN Append(end.out, 65533) ELSE end.out

\* the encoding that takes each code unit for one byte
b64EncodeUTF8_Latin1(str) == btoa([i \in 1..Len(str) |-> str[i] % 256]).v

\* b64EncodeUTF8(str): the bytes are below 256, so btoa does not throw
b64EncodeUTF8(str) == btoa(TextEncode(str)).v

\* b64DecodeUTF8(b64): throws exactly when atob throws
b64DecodeUTF8(b64) ==
    LET bin == atob(b64)
    IN  IF ~bin.ok THEN Thrown ELSE Ok(TextDecode(bin.v))

(***************************************************************************)
(* The codecs' results: a text, or null.  Truthy is the test of || and of  *)
(* !jsonStr: null and the empty string are falsy.                          *)
(***************************************************************************)
Null == [found |-> FALSE, text |-> <<>>]
Found(t) == [found |-> TRUE, text |-> t]
Truthy(r) == r.found /\ r.text # <<>>

\* try { return b64DecodeUTF8(b64); } catch { return null; }
DecodeOrNull(b64) ==
    LET r == b64DecodeUTF8(b64)
    IN  IF r.ok THEN Found(r.v) ELSE Null

(***************************************************************************)
(* Marker codec.                                                           *)
(***************************************************************************)
\* '<<<RIRDATA::'
EMBED_START == <<60, 60, 60, 82, 73, 82, 68, 65, 84, 65, 58, 58>>
\* '::RIRDATA>>>'
EMBED_END == <<58, 58, 82, 73, 82, 68, 65, 84, 65, 62, 62, 62>>
\* the column width of b64.replace(/(.{1,120})/g, '$1 ')
WrapWidth == 120

HexDigit(d) == IF d < 10 THEN 48 + d ELSE 87 + d

\* n.toString(16) for 0 <= n < 65536, and the same padded to four digits
Hex16(n) ==
    IF n < 16 THEN <<HexDigit(n)>>
    ELSE IF n < 256 THEN <<HexDigit(n \div 16), HexDigit(n % 16)>>
    ELSE IF n < 4096
         THEN <<HexDigit(n \div 256), HexDigit((n \div 16) % 16), HexDigit(n % 16)>>
    ELSE <<HexDigit(n \div 4096), HexDigit((n \div 256) % 16),
           HexDigit((n \div 16) % 16), HexDigit(n % 16)>>
Hex16Padded(n) ==
    <<HexDigit(n \div 4096), HexDigit((n \div 256) % 16),
      HexDigit((n \div 16) % 16), HexDigit(n % 16)>>

\* the step with the even multiplier 32: a character more than six places
\* from the end no longer reaches the 32 bits of the hash
ChecksumStep_Times32(h, c) ==
    LET lo1 == (h[2] * 32) + c
    IN  <<((h[1] * 32) + (lo1 \div 65536)) % 65536, lo1 % 65536>>

\* h = (h * 31 + c) >>> 0 on the unsigned 32-bit h = hi * 2^16 + lo
ChecksumStep(h, c) ==
    LET lo1 == (h[2] * 31) + c
    IN  <<((h[1] * 31) + (lo1 \div 65536)) % 65536, lo1 % 65536>>

\* the loop over str[from..to], in order, starting from h (the halves are
\* bound as values, so that each is computed once)
RECURSIVE ChecksumFold(_, _, _, _)
ChecksumFold(str, from, to, h) ==
    IF from > to THEN h
    ELSE IF from = to THEN ChecksumStep(h, str[from])
    ELSE LET mid == (from + to) \div 2
         IN  CHOOSE r \in { ChecksumFold(str, mid + 1, to, left) :
                            left \in {ChecksumFold(str, from, mid, h)} } : TRUE

\* checksum(str): the hash rendered by toString(16)
checksum(str) ==
    CHOOSE r \in { IF h[1] = 0 THEN Hex16(h[2]) ELSE Hex16(h[1]) \o Hex16Padded(h[2]) :
                   h \in { ChecksumFold(s, 1, Len(s), <<0, 0>>) : s \in {str} } } : TRUE

\* b64.replace(/(.{1,120})/g, '$1 '): a space after every chunk of up to
\* WrapWidth characters (base64 holds no line terminator, so '.' matches all)
Wrap(b64) ==
    LET n == Len(b64)
        chunks == (n + WrapWidth - 1) \div WrapWidth
        chunk(k) == SubSeq(b64, ((k - 1) * WrapWidth) + 1, Min(k * WrapWidth, n))
                    \o <<32>>
    IN  Flatten([k \in 1..chunks |-> chunk(k)])

\* `${EMBED_START}${sum}|${wrapped}${EMBED_END}` for the base64 text b64
MarkerFrame(b64) ==
    EMBED_START \o checksum(b64) \o <<124>> \o Wrap(b64) \o EMBED_END

makeMarkerPayload(json) == MarkerFrame(b64EncodeUTF8(json))

\* The first match of  EMBED_START([0-9a-f]+)\|([\s\S]*?)EMBED_END  in text:
\* the leftmost start delimiter that is followed by a non-empty run of hex
\* digits (greedy: the whole run), a '|' and, anywhere after, an end
\* delimiter; the body is lazy, so it ends at the first end delimiter.
\* [at |-> 0] when nothing matches.
HexRunEnd(text, p) ==
    LET stops == { j \in p..Len(text) : ~IsHexLower(text[j]) }
    IN  IF stops = {} THEN Len(text)
        ELSE (CHOOSE j \in stops : \A k \in stops : j <= k) - 1

MarkerMatchAt(text, i) ==
    LET p == i + Len(EMBED_START)
        e == HexRunEnd(text, p)
    IN  IF ~MatchAt(text, i, EMBED_START) \/ e < p \/ e + 1 > Len(text)
           \/ text[e + 1] # 124
        THEN [at |-> 0, sum |-> <<>>, body |-> <<>>, end |-> 0]
        ELSE LET q == IndexOf(text, EMBED_END, e + 2)
             IN  IF q = 0
                 THEN [at |-> 0, sum |-> <<>>, body |-> <<>>, end |-> 0]
                 ELSE [at |-> i, sum |-> SubSeq(text, p, e),
                       body |-> SubSeq(text, e + 2, q - 1),
                       end |-> q + Len(EMBED_END) - 1]

MarkerMatch(text) ==
    LET cands == { i \in 1..Len(text) :
                     MatchAt(text, i, EMBED_START) /\ MarkerMatchAt(text, i).at # 0 }
    IN  IF cands = {} THEN [at |-> 0, sum |-> <<>>, body |-> <<>>, end |-> 0]
        ELSE MarkerMatchAt(text, CHOOSE i \in cands : \A j \in cands : i <= j)

\* a strip of the blanks only, which leaves the newlines of a reflow in
StripSpace_BlanksOnly(body) == SelectSeq(body, LAMBDA c : c # 32)

\* body.replace(/\s+/g, '')
StripSpace(body) == SelectSeq(body, LAMBDA c : ~IsJsSpace(c))

\* a decoder that goes on to the later matches when one fails its checksum
\* or its decoding
tryMarkerPayload_AnyCopy(text) ==
    LET good == { i \in 1..Len(text) :
                    /\ MarkerMatchAt(text, i).at # 0
                    /\ LET m == MarkerMatchAt(text, i)
                           b64 == StripSpace(m.body)
                       IN  checksum(b64) = m.sum /\ DecodeOrNull(b64) # Null }
    IN  IF good = {} THEN Null
        ELSE LET i == CHOOSE g \in good : \A h \in good : g <= h
             IN  DecodeOrNull(StripSpace(MarkerMatchAt(text, i).body))

tryMarkerPayload(text) ==
    LET m == MarkerMatch(text)
    IN  IF m.at = 0 THEN Null
        ELSE LET b64 == StripSpace(m.body)
             IN  IF checksum(b64) # m.sum THEN Null
                 ELSE DecodeOrNull(b64)

(***************************************************************************)
(* Zero-width codec.                                                       *)
(***************************************************************************)
\* U+200B ZERO WIDTH SPACE: the bit 0
ZW0 == 8203
\* U+200C ZERO WIDTH NON-JOINER: the bit 1
ZW1 == 8204
\* U+200D ZERO WIDTH JOINER; the sentinel ZWS is two of them
ZWJ == 8205
ZWS == <<ZWJ, ZWJ>>

\* the bits without padStart: toString(2) alone, six digits for '+', '/',
\* '=' and the digits, seven for the letters
ZWBitsOfChar_NoPad(c) ==
    LET n == CHOOSE m \in 1..8 : c < 2 ^ m /\ (m = 1 \/ c >= 2 ^ (m - 1))
    IN  [k \in 1..n |-> IF (c \div (2 ^ (n - k))) % 2 = 1 THEN ZW1 ELSE ZW0]

\* ch.charCodeAt(0).toString(2).padStart(8, '0') with 0 -> ZW0, 1 -> ZW1
\* (base64 characters are below 128, so toString(2) has at most 7 digits)
ZWBitsOfChar(c) ==
    [k \in 1..8 |-> IF (c \div (2 ^ (8 - k))) % 2 = 1 THEN ZW1 ELSE ZW0]

\* ZWS + body + ZWS for the base64 text b64
ZWFrame(b64) ==
    ZWS \o Flatten([i \in 1..Len(b64) |-> ZWBitsOfChar(b64[i])]) \o ZWS

encodeZW(jsonStr) == ZWFrame(b64EncodeUTF8(jsonStr))

\* zwOnly.split(ZWS).filter(Boolean)[0]: the first non-empty piece between
\* successive (non-overlapping, left to right) sentinels; <<>> when none
RECURSIVE FirstZWPart(_, _)
FirstZWPart(s, from) ==
    IF from > Len(s) THEN <<>>
    ELSE LET q == IndexOf(s, ZWS, from)
         IN  IF q = 0 THEN SubSeq(s, from, Len(s))
             ELSE IF q = from THEN FirstZWPart(s, from + 2)
             ELSE SubSeq(s, from, q - 1)

\* String.fromCharCode(parseInt(byte, 2)) on eight characters of '0', '1'
\* and U+200D: parseInt reads the longest prefix of binary digits, and is
\* NaN, which fromCharCode turns into 0, when that prefix is empty
RECURSIVE ParseBin(_, _, _)
ParseBin(chunk, i, acc) ==
    IF i > Len(chunk) \/ chunk[i] = ZWJ THEN acc
    ELSE ParseBin(chunk, i + 1, (acc * 2) + (IF chunk[i] = ZW1 THEN 1 ELSE 0))

ZWBytes(bits) ==
    [k \in 1..(Len(bits) \div 8) |->
        ParseBin(SubSeq(bits, (8 * k) - 7, 8 * k), 1, 0)]

\* the decoder without the replace that keeps the three code points only:
\* it splits the text as it is
decodeZWFromText_NoStrip(text) ==
    LET part == FirstZWPart(text, 1)
    IN  IF part = <<>> THEN Null
        ELSE IF Len(part) % 8 # 0 THEN Null
        ELSE DecodeOrNull(ZWBytes(part))

\* the decoder without the test of the length
decodeZWFromText_NoLengthTest(text) ==
    LET zwOnly == SelectSeq(text, LAMBDA c : c \in {ZW0, ZW1, ZWJ})
        part == FirstZWPart(zwOnly, 1)
    IN  IF part = <<>> THEN Null ELSE DecodeOrNull(ZWBytes(part))

decodeZWFromText(text) ==
    LET zwOnly == SelectSeq(text, LAMBDA c : c \in {ZW0, ZW1, ZWJ})
        part == FirstZWPart(zwOnly, 1)
    IN  IF part = <<>> THEN Null
        ELSE IF Len(part) % 8 # 0 THEN Null
        ELSE DecodeOrNull(ZWBytes(part))

(***************************************************************************)
(* The zero-width codec of the first App variant, which goes to btoa and   *)
(* atob without the UTF-8 bridge.  encodeZW_first is a result of the kind  *)
(* of btoa's: the function throws when btoa does.                          *)
(***************************************************************************)
\* the first variant's encoder without padStart(8, '0')
encodeZW_first_NoPad(jsonStr) ==
    LET b64 == btoa(jsonStr)
    IN  IF b64.ok
        THEN Ok(ZWS \o Flatten([i \in 1..Len(b64.v) |->
                                   ZWBitsOfChar_NoPad(b64.v[i])]) \o ZWS)
        ELSE Thrown

encodeZW_first(jsonStr) ==
    LET b64 == btoa(jsonStr)
    IN  IF b64.ok THEN Ok(ZWFrame(b64.v)) ELSE Thrown

\* try { return atob(b64); } catch { return null; }
AtobOrNull(b64) ==
    LET r == atob(b64)
    IN  IF r.ok THEN Found(r.v) ELSE Null

decodeZWFromText_first(text) ==
    LET zwOnly == SelectSeq(text, LAMBDA c : c \in {ZW0, ZW1, ZWJ})
        part == FirstZWPart(zwOnly, 1)
    IN  IF part = <<>> THEN Null
        ELSE IF Len(part) % 8 # 0 THEN Null
        ELSE AtobOrNull(ZWBytes(part))

(***************************************************************************)
(* Legacy codec.                                                           *)
(***************************************************************************)
\* 'DATA::'
LEGACY_START == <<68, 65, 84, 65, 58, 58>>
\* '::END'
LEGACY_END == <<58, 58, 69, 78, 68>>

\* The first match of /DATA::([\s\S]*?)::END/: the leftmost 'DATA::' (if it
\* has no '::END' after it no later one has) up to the first '::END'.
LegacyMatch(text) ==
    LET i == IndexOf(text, LEGACY_START, 1)
        q == IF i = 0 THEN 0 ELSE IndexOf(text, LEGACY_END, i + Len(LEGACY_START))
    IN  IF q = 0 THEN [at |-> 0, body |-> <<>>]
        ELSE [at |-> i, body |-> SubSeq(text, i + Len(LEGACY_START), q - 1)]

\* a strip of the blanks and newlines only
StripNonB64_SpacesOnly(body) == SelectSeq(body, LAMBDA c : c \notin {32, 10})

\* m[1].replace(/[^A-Za-z0-9+/=]/g, '')
StripNonB64(body) == SelectSeq(body, LAMBDA c : IsB64Char(c) \/ c = 61)

tryLegacyDataBlock(text) ==
    LET m == LegacyMatch(text)
    IN  IF m.at = 0 THEN Null
        ELSE DecodeOrNull(StripNonB64(m.body))

(***************************************************************************)
(* JSON values: [k |-> kind, v |-> content].  A record ("obj") is the      *)
(* sequence of its <<key, value>> members in property order; keys and      *)
(* strings are texts.  Numbers are integers (the form's numeric fields in  *)
(* the modelled documents).  The model's keys are never integer-like, so   *)
(* property order is insertion order.                                      *)
(***************************************************************************)
JNull == [k |-> "null", v |-> <<>>]
JBool(b) == [k |-> "bool", v |-> b]
JNum(n) == [k |-> "num", v |-> n]
JStr(s) == [k |-> "str", v |-> s]
JArr(items) == [k |-> "arr", v |-> items]
JObj(members) == [k |-> "obj", v |-> members]
\* what the model does not represent: an array carrying named properties,
\* or a record with integer-like keys taken from a loaded array
JUnmodelled == [k |-> "unmodelled", v |-> <<>>]

Keys(obj) == [i \in 1..Len(obj.v) |-> obj.v[i][1]]
HasKey(obj, key) == obj.k = "obj" /\ \E i \in 1..Len(obj.v) : obj.v[i][1] = key
\* obj[key], for a key the record has
Get(obj, key) == obj.v[CHOOSE i \in 1..Len(obj.v) : obj.v[i][1] = key][2]
\* obj[key] = val: in place when the key exists, appended otherwise
Put(obj, key, val) ==
    IF HasKey(obj, key)
    THEN JObj([i \in 1..Len(obj.v) |->
                 IF obj.v[i][1] = key THEN <<key, val>> ELSE obj.v[i]])
    ELSE JObj(Append(obj.v, <<key, val>>))

\* String(n) for an integer n
RECURSIVE Digits(_)
Digits(n) == IF n < 10 THEN <<48 + n>> ELSE Append(Digits(n \div 10), 48 + (n % 10))
NumberText(n) == IF n < 0 THEN <<45>> \o Digits(0 - n) ELSE Digits(n)

(***************************************************************************)
(* JSON.stringify                                                          *)
(***************************************************************************)
\* one code unit of a string, as QuoteJSONString writes it (i is its index:
\* a surrogate is written raw only when it is half of a pair)
QuoteUnit(str, i) ==
    LET c == str[i]
        u4 == <<92, 117>> \o Hex16Padded(c)
    IN  CASE c = 34 -> <<92, 34>>
          [] c = 92 -> <<92, 92>>
          [] c = 8 -> <<92, 98>>
          [] c = 12 -> <<92, 102>>
          [] c = 10 -> <<92, 110>>
          [] c = 13 -> <<92, 114>>
          [] c = 9 -> <<92, 116>>
          [] c < 32 -> u4
          [] IsHighSurrogate(c) ->
               IF i < Len(str) /\ IsLowSurrogate(str[i + 1]) THEN <<c>> ELSE u4
          [] IsLowSurrogate(c) ->
               IF i > 1 /\ IsHighSurrogate(str[i - 1]) THEN <<c>> ELSE u4
          [] OTHER -> <<c>>

QuoteJSONString(str) ==
    <<34>> \o Flatten([i \in 1..Len(str) |-> QuoteUnit(str, i)]) \o <<34>>

\* parts joined by ','
JoinComma(parts) ==
    Flatten([i \in 1..Len(parts) |->
                IF i = 1 THEN parts[i] ELSE <<44>> \o parts[i]])

RECURSIVE JSONstringify(_)
JSONstringify(val) ==
    CASE val.k = "null" -> <<110, 117, 108, 108>>
      [] val.k = "bool" -> IF val.v THEN <<116, 114, 117, 101>>
                                    ELSE <<102, 97, 108, 115, 101>>
      [] val.k = "num" -> NumberText(val.v)
      [] val.k = "str" -> QuoteJSONString(val.v)
      [] val.k = "arr" ->
           <<91>> \o JoinComma([i \in 1..Len(val.v) |-> JSONstringify(val.v[i])])
                  \o <<93>>
      [] val.k = "obj" ->
           <<123>> \o JoinComma([i \in 1..Len(val.v) |->
                                    QuoteJSONString(val.v[i][1]) \o <<58>>
                                    \o JSONstringify(val.v[i][2])])
                   \o <<125>>

(***************************************************************************)
(* JSON.parse: [ok |-> TRUE, v |-> value, next |-> index after it], or     *)
(* SyntaxError.  Numbers are read as integers; a fraction or an exponent,  *)
(* which no modelled document holds, is read as a SyntaxError.             *)
(***************************************************************************)
SyntaxError == [ok |-> FALSE, v |-> JNull, next |-> 0]
Parsed(v, next) == [ok |-> TRUE, v |-> v, next |-> next]

IsJsonWs(c) == c \in {32, 9, 10, 13}

\* the first index >= i that holds no JSON whitespace (Len + 1 at the end)
SkipWs(text, i) ==
    LET stops == { j \in i..Len(text) : ~IsJsonWs(text[j]) }
    IN  IF stops = {} THEN Len(text) + 1
        ELSE CHOOSE j \in stops : \A k \in stops : j <= k

IsHexDigit(c) == IsDigit(c) \/ c \in 97..102 \/ c \in 65..70
HexVal(c) == IF IsDigit(c) THEN c - 48 ELSE IF c >= 97 THEN c - 87 ELSE c - 55

\* the characters of a string literal from index i up to its closing quote
\* at index close, with the escapes resolved; ok is FALSE on a bad escape
\* or a raw control character
RECURSIVE Unescape(_, _, _, _)
Unescape(text, i, close, acc) ==
    IF i >= close THEN [ok |-> TRUE, v |-> acc]
    ELSE LET c == text[i]
         IN  IF c < 32 THEN [ok |-> FALSE, v |-> <<>>]
             ELSE IF c # 92 THEN Unescape(text, i + 1, close, Append(acc, c))
             ELSE IF i + 1 >= close THEN [ok |-> FALSE, v |-> <<>>]
             ELSE LET e == text[i + 1]
                  IN  CASE e \in {34, 92, 47} ->
                             Unescape(text, i + 2, close, Append(acc, e))
                        [] e = 98 -> Unescape(text, i + 2, close, Append(acc, 8))
                        [] e = 102 -> Unescape(text, i + 2, close, Append(acc, 12))
                        [] e = 110 -> Unescape(text, i + 2, close, Append(acc, 10))
                        [] e = 114 -> Unescape(text, i + 2, close, Append(acc, 13))
                        [] e = 116 -> Unescape(text, i + 2, close, Append(acc, 9))
                        [] e = 117 ->
                             IF i + 5 < close
                                /\ \A d \in 2..5 : IsHexDigit(text[i + d])
                             THEN Unescape(text, i + 6, close,
                                    Append(acc, (HexVal(text[i + 2]) * 4096)
                                                + (HexVal(text[i + 3]) * 256)
                                                + (HexVal(text[i + 4]) * 16)
                                                + HexVal(text[i + 5])))
                             ELSE [ok |-> FALSE, v |-> <<>>]
                        [] OTHER -> [ok |-> FALSE, v |-> <<>>]

\* the number of backslashes that end at index j
RECURSIVE BackslashesBefore(_, _)
BackslashesBefore(text, j) ==
    IF j < 1 \/ text[j] # 92 THEN 0 ELSE 1 + BackslashesBefore(text, j - 1)

\* text[i] is the opening quote
ParseString(text, i) ==
    LET closes == { j \in (i + 1)..Len(text) :
                      text[j] = 34 /\ BackslashesBefore(text, j - 1) % 2 = 0 }
    IN  IF closes = {} THEN SyntaxError
        ELSE LET close == CHOOSE j \in closes : \A k \in closes : j <= k
                 plain == \A j \in (i + 1)..(close - 1) :
                             text[j] # 92 /\ text[j] >= 32
                 r == IF plain
                      THEN [ok |-> TRUE, v |-> SubSeq(text, i + 1, close - 1)]
                      ELSE Unescape(text, i + 1, close, <<>>)
             IN  IF r.ok THEN Parsed(JStr(r.v), close + 1) ELSE SyntaxError

RECURSIVE DigitsValue(_, _, _, _)
DigitsValue(text, i, to, acc) ==
    IF i > to THEN acc
    ELSE DigitsValue(text, i + 1, to, (acc * 10) + (text[i] - 48))

\* -?(0|[1-9][0-9]*), text[i] being '-' or a digit
ParseNumber(text, i) ==
    LET neg == text[i] = 45
        d == IF neg THEN i + 1 ELSE i
        stops == { j \in d..Len(text) : ~IsDigit(text[j]) }
        to == IF stops = {} THEN Len(text)
              ELSE (CHOOSE j \in stops : \A k \in stops : j <= k) - 1
    IN  IF to < d THEN SyntaxError
        ELSE IF text[d] = 48 /\ to > d THEN SyntaxError
        ELSE IF to < Len(text) /\ text[to + 1] \in {46, 101, 69} THEN SyntaxError
        ELSE LET n == DigitsValue(text, d, to, 0)
             IN  Parsed(JNum(IF neg THEN 0 - n ELSE n), to + 1)

ParseLiteral(text, i, word, val) ==
    IF MatchAt(text, i, word) THEN Parsed(val, i + Len(word)) ELSE SyntaxError

RECURSIVE ParseValue(_, _), ParseItems(_, _, _), ParseMembers(_, _, _)

\* the value that starts at the first non-blank index >= i
ParseValue(text, i) ==
    LET j == SkipWs(text, i)
    IN  IF j > Len(text) THEN SyntaxError
        ELSE LET c == text[j]
             IN  CASE c = 123 ->
                        LET q == SkipWs(text, j + 1)
                        IN  IF q <= Len(text) /\ text[q] = 125
                            THEN Parsed(JObj(<<>>), q + 1)
                            ELSE ParseMembers(text, j + 1, JObj(<<>>))
                   [] c = 91 ->
                        LET q == SkipWs(text, j + 1)
                        IN  IF q <= Len(text) /\ text[q] = 93
                            THEN Parsed(JArr(<<>>), q + 1)
                            ELSE ParseItems(text, j + 1, <<>>)
                   [] c = 34 -> ParseString(text, j)
                   [] c = 110 -> ParseLiteral(text, j, <<110, 117, 108, 108>>, JNull)
                   [] c = 116 -> ParseLiteral(text, j, <<116, 114, 117, 101>>,
                                              JBool(TRUE))
                   [] c = 102 -> ParseLiteral(text, j, <<102, 97, 108, 115, 101>>,
                                              JBool(FALSE))
                   [] c = 45 \/ IsDigit(c) -> ParseNumber(text, j)
                   [] OTHER -> SyntaxError

\* the items of an array from index i on, after '[' or ','
ParseItems(text, i, acc) ==
    LET r == ParseValue(text, i)
    IN  IF ~r.ok THEN SyntaxError
        ELSE LET q == SkipWs(text, r.next)
             IN  IF q > Len(text) THEN SyntaxError
                 ELSE IF text[q] = 93 THEN Parsed(JArr(Append(acc, r.v)), q + 1)
                 ELSE IF text[q] = 44 THEN ParseItems(text, q + 1, Append(acc, r.v))
                 ELSE SyntaxError

\* the members of a record from index i on, after '{' or ','; a repeated
\* key keeps its first place and takes the last value
ParseMembers(text, i, obj) ==
    LET j == SkipWs(text, i)
    IN  IF j > Len(text) \/ text[j] # 34 THEN SyntaxError
        ELSE LET key == ParseString(text, j)
                 c == IF key.ok THEN SkipWs(text, key.next) ELSE 0
             IN  IF ~key.ok \/ c > Len(text) \/ text[c] # 58 THEN SyntaxError
                 ELSE LET r == ParseValue(text, c + 1)
                          q == IF r.ok THEN SkipWs(text, r.next) ELSE 0
                      IN  IF ~r.ok \/ q > Len(text) THEN SyntaxError
                          ELSE IF text[q] = 125
                          THEN Parsed(Put(obj, key.v.v, r.v), q + 1)
                          ELSE IF text[q] = 44
                          THEN ParseMembers(text, q + 1, Put(obj, key.v.v, r.v))
                          ELSE SyntaxError

\* JSON.parse(text): one value, then only whitespace
JSONparse(text) ==
    LET r == ParseValue(text, 1)
    IN  IF r.ok /\ SkipWs(text, r.next) > Len(text) THEN r ELSE SyntaxError

(***************************************************************************)
(* Form data.  The model keeps a part of FormData that has every kind of   *)
(* field the form has: the required selection and the two required texts  *)
(* of the header, the revision and its date, a numeric field that may be   *)
(* null, a record nested three deep, the variable-length rows and a free   *)
(* text.  The other fields of the source are of the same kinds and go      *)
(* through the same generic code.                                          *)
(***************************************************************************)
K_header == <<104, 101, 97, 100, 101, 114>>
K_apparatusType == <<97, 112, 112, 97, 114, 97, 116, 117, 115, 84, 121, 112, 101>>
K_deviceSerial == <<100, 101, 118, 105, 99, 101, 83, 101, 114, 105, 97, 108>>
K_customerOrder == <<99, 117, 115, 116, 111, 109, 101, 114, 79, 114, 100, 101, 114>>
K_revision == <<114, 101, 118, 105, 115, 105, 111, 110>>
K_revDate == <<114, 101, 118, 68, 97, 116, 101>>
K_section1 == <<115, 101, 99, 116, 105, 111, 110, 49>>
K_vacA == <<118, 97, 99, 65>>
K_section2 == <<115, 101, 99, 116, 105, 111, 110, 50>>
K_longTimePickup == <<108, 111, 110, 103, 84, 105, 109, 101, 80, 105, 99, 107, 117, 112>>
K_settings == <<115, 101, 116, 116, 105, 110, 103, 115>>
K_section7 == <<115, 101, 99, 116, 105, 111, 110, 55>>
K_rows == <<114, 111, 119, 115>>
K_label == <<108, 97, 98, 101, 108>>
K_a == <<97>>
K_comments == <<99, 111, 109, 109, 101, 110, 116, 115>>

\* The date of day d as yyyy-mm-dd: todayLocal() and today() on day d (the
\* model's days are 2026-01-01 .. 2026-01-09, in one time zone)
DateText(d) == <<50, 48, 50, 54, 45, 48, 49, 45, 48, 48 + d>>
todayLocal(d) == DateText(d)
today(d) == DateText(d)

defaultTripRow == JObj(<< <<K_settings, JStr(<<>>)>> >>)

\* { label: '', a: null, ... }: the row Add Row appends and the default holds
BlankRow == JObj(<< <<K_label, JStr(<<>>)>>, <<K_a, JNull>> >>)

\* defaultFormData() on day d
defaultFormData(d) ==
    JObj(<< <<K_header, JObj(<< <<K_apparatusType, JStr(<<>>)>>,
                               <<K_deviceSerial, JStr(<<>>)>>,
                               <<K_customerOrder, JStr(<<>>)>>,
                               <<K_revision, JStr(<<65>>)>>,
                               <<K_revDate, JStr(today(d))>> >>)>>,
            <<K_section1, JObj(<< <<K_vacA, JNull>> >>)>>,
            <<K_section2, JObj(<< <<K_longTimePickup, defaultTripRow>> >>)>>,
            <<K_section7, JObj(<< <<K_rows, JArr(<<BlankRow>>)>> >>)>>,
            <<K_comments, JStr(<<>>)>> >>)

\* the index an array key names: '0', '1', ... read as a number
IsIndexKey(key) == Len(key) >= 1 /\ \A i \in 1..Len(key) : IsDigit(key[i])
IndexOfKey(key) == DigitsValue(key, 1, Len(key), 0)

\* p in cur
In(cur, key) ==
    CASE cur.k = "obj" -> HasKey(cur, key)
      [] cur.k = "arr" -> IsIndexKey(key) /\ IndexOfKey(key) < Len(cur.v)
      [] OTHER -> FALSE

\* cur[p], for p in cur
At(cur, key) ==
    IF cur.k = "obj" THEN Get(cur, key) ELSE cur.v[IndexOfKey(key) + 1]

\* cur[p] = val.  An array takes an index it has or its length; anything
\* else (a named property on an array, a hole, a property of a primitive)
\* is not represented.
Assign(cur, key, val) ==
    CASE cur.k = "obj" -> Put(cur, key, val)
      [] cur.k = "arr" /\ IsIndexKey(key) /\ IndexOfKey(key) < Len(cur.v) ->
           JArr([cur.v EXCEPT ![IndexOfKey(key) + 1] = val])
      [] cur.k = "arr" /\ IsIndexKey(key) /\ IndexOfKey(key) = Len(cur.v) ->
           JArr(Append(cur.v, val))
      [] OTHER -> JUnmodelled

\* setAtPath(obj, path, value), path being path.split('.'): the walk creates
\* {} for a missing key and assigns at the last key
RECURSIVE setAtPath(_, _, _)
setAtPath(obj, path, value) ==
    IF Len(path) = 1 THEN Assign(obj, path[1], value)
    ELSE IF obj.k \notin {"obj", "arr"} THEN JUnmodelled
    ELSE LET child == IF In(obj, path[1]) THEN At(obj, path[1]) ELSE JObj(<<>>)
         IN  Assign(obj, path[1], setAtPath(child, Tail(path), value))

\* { ...target } for a target that is no array: a record's own members, a
\* string's characters under their indices, nothing for the other primitives
Spread(target) ==
    CASE target.k = "obj" -> target
      [] target.k = "str" ->
           JObj([i \in 1..Len(target.v) |->
                   <<NumberText(i - 1), JStr(<<target.v[i]>>)>>])
      [] OTHER -> JObj(<<>>)

\* the merge of a nested record onto {} instead of the target's record
TargetAt_Empty(target, key) == JObj(<<>>)

\* target[key] ?? {}
TargetAt(target, key) ==
    IF target.k = "obj" /\ HasKey(target, key) /\ Get(target, key).k # "null"
    THEN Get(target, key)
    ELSE JObj(<<>>)

RECURSIVE deepMerge(_, _), MergeKeys(_, _, _, _)

\* the loop with an empty sequence giving way to the target's value
MergeKeys_EmptyKeepsTarget(target, source, i, output) ==
    IF i > Len(source.v) THEN output
    ELSE LET key == source.v[i][1]
             val == source.v[i][2]
             new == IF val.k = "arr"
                    THEN IF val.v = <<>> /\ HasKey(target, key)
                         THEN Get(target, key) ELSE val
                    ELSE IF val.k = "obj"
                    THEN deepMerge(TargetAt(target, key), val)
                    ELSE val
         IN  MergeKeys(target, source, i + 1, Put(output, key, new))

\* the loop of deepMerge over Object.keys(source), from the i-th key on
MergeKeys(target, source, i, output) ==
    IF i > Len(source.v) THEN output
    ELSE LET key == source.v[i][1]
             val == source.v[i][2]
             new == IF val.k = "arr" THEN val
                    ELSE IF val.k = "obj"
                    THEN deepMerge(TargetAt(target, key), val)
                    ELSE val
         IN  MergeKeys(target, source, i + 1, Put(output, key, new))

\* deepMerge(target, source).  A source that is no object gives the target
\* back; an empty array has no keys; an array target or a non-empty array
\* source would give an array with named properties or a record with index
\* keys, which are not represented.
deepMerge(target, source) ==
    IF source.k \notin {"obj", "arr"} THEN target
    ELSE IF target.k = "arr"
    THEN IF source.v = <<>> THEN target ELSE JUnmodelled
    ELSE IF source.k = "arr"
    THEN IF source.v = <<>> THEN Spread(target) ELSE JUnmodelled
    ELSE MergeKeys(target, source, 1, Spread(target))

\* mergeWithDefault(loaded) on day d
mergeWithDefault(loaded, d) == deepMerge(defaultFormData(d), loaded)

(***************************************************************************)
(* The decode chain and the synchronous end of handlePdfImport.            *)
(***************************************************************************)
\* the chain in the order of the older format first
DecodeChain_LegacyFirst(text) ==
    LET m == tryMarkerPayload(text)
        z == decodeZWFromText(text)
        l == tryLegacyDataBlock(text)
    IN  IF Truthy(l) THEN [jsonStr |-> l, tried |-> <<"legacy">>]
        ELSE IF Truthy(z) THEN [jsonStr |-> z, tried |-> <<"legacy", "zw">>]
        ELSE [jsonStr |-> m, tried |-> <<"legacy", "zw", "marker">>]

\* tryMarkerPayload(text) || decodeZWFromText(text) || tryLegacyDataBlock(text):
\* the value of the || chain and the decoders it evaluated, in order
DecodeChain(text) ==
    LET m == tryMarkerPayload(text)
        z == decodeZWFromText(text)
        l == tryLegacyDataBlock(text)
    IN  IF Truthy(m) THEN [jsonStr |-> m, tried |-> <<"marker">>]
        ELSE IF Truthy(z) THEN [jsonStr |-> z, tried |-> <<"marker", "zw">>]
        ELSE [jsonStr |-> l, tried |-> <<"marker", "zw", "legacy">>]

\* The synchronous end of handlePdfImport, from the extracted text to the
\* outcome on day d: "notfound" (the alert 'No embedded data found'),
\* "error" (the catch block's 'Could not read data from PDF'), or "restored"
\* with the state handed to setData.
Outcome(outcome, state, tried) ==
    [outcome |-> outcome, state |-> state, tried |-> tried]

\* merged.header.revDate = todayLocal(); setData(merged).  The assignment
\* throws a TypeError when merged.header is a primitive (module code is
\* strict).
RestoreMerged_KeepDate(merged, header, d, tried) ==
    IF header.k \notin {"obj", "arr"}
    THEN Outcome("error", JNull, tried)
    ELSE Outcome("restored", merged, tried)

RestoreMerged(merged, header, d, tried) ==
    IF header.k \notin {"obj", "arr"}
    THEN Outcome("error", JNull, tried)
    ELSE Outcome("restored",
                 Put(merged, K_header,
                     Assign(header, K_revDate, JStr(todayLocal(d)))),
                 tried)

\* a restore that takes a parsed value that is no record for unreadable
RestoreLoaded_RecordsOnly(loaded, d, tried) ==
    IF ~loaded.ok \/ loaded.v.k # "obj" THEN Outcome("error", JNull, tried)
    ELSE RestoreMerged(mergeWithDefault(loaded.v, d),
                       Get(mergeWithDefault(loaded.v, d), K_header), d, tried)

\* const merged = mergeWithDefault(loaded), behind the JSON.parse that may
\* throw
RestoreLoaded(loaded, d, tried) ==
    IF ~loaded.ok THEN Outcome("error", JNull, tried)
    ELSE RestoreMerged(mergeWithDefault(loaded.v, d),
                       Get(mergeWithDefault(loaded.v, d), K_header), d, tried)

\* the restore without the test of !jsonStr
RestoreChain_NoAbsentTest(chain, d) ==
    RestoreLoaded(JSONparse(chain.jsonStr.text), d, chain.tried)

\* if (!jsonStr) { alert('No embedded data found. ...'); return; }
RestoreChain(chain, d) ==
    IF ~Truthy(chain.jsonStr) THEN Outcome("notfound", JNull, chain.tried)
    ELSE RestoreLoaded(JSONparse(chain.jsonStr.text), d, chain.tried)

RestoreFromText(text, d) == RestoreChain(DecodeChain(text), d)

(***************************************************************************)
(* The page text handlePdfImport builds: the page's items joined by ' ',   *)
(* then '\n'.                                                              *)
(***************************************************************************)
JoinSpace(items) ==
    Flatten([i \in 1..Len(items) |->
                IF i = 1 THEN items[i] ELSE <<32>> \o items[i]])
PageText(items) == JoinSpace(items) \o <<10>>

(***************************************************************************)
(* Bounds and inputs of the codec specification.                           *)
(***************************************************************************)
\* the longest text inside the quoted JSON texts
MaxStrLen == 1

\* a, ", micro sign, rightwards arrow
Alphabet == {97, 34, 181, 8594}
TextsUpTo(n) == UNION { [1..k -> Alphabet] : k \in 0..n }

K_x == <<120>>
K_count == <<99, 111, 117, 110, 116>>
\* {"x":1}
P_x1 == JSONstringify(JObj(<< <<K_x, JNum(1)>> >>))
\* {"count":3,"rows":["a","b"]}
P_count ==
    JSONstringify(JObj(<< <<K_count, JNum(3)>>,
                          <<K_rows, JArr(<<JStr(<<97>>), JStr(<<98>>)>>)>> >>))
\* {"comments":"µΩ ± → ≤"}
P_uni ==
    JSONstringify(JObj(<< <<K_comments,
                            JStr(<<181, 937, 32, 177, 32, 8594, 32, 8804>>)>> >>))
\* the header of the default form, with a face (a surrogate pair) as the
\* serial: its base64 is longer than one wrapped line
P_long ==
    JSONstringify(Put(Get(defaultFormData(1), K_header), K_deviceSerial,
                      JStr(<<55357, 56832>>)))

\* {"x":"DCC"}, whose base64 eyJ4IjoiRENDIn0= holds the letters END
P_dcc == JSONstringify(JObj(<< <<K_x, JStr(<<68, 67, 67>>)>> >>))

SmallPayloads == {P_x1, P_count, P_uni}
JsonTexts ==
    { JSONstringify(JStr(t)) : t \in TextsUpTo(MaxStrLen) }
      \cup SmallPayloads \cup {P_long}

\* texts that are no JSON text: the empty text and '{x'
NonJsonTexts == {<<>>, <<123, 120>>}

\* base64 texts that are not the encoding of a text: the byte FF, a
\* truncated three-byte sequence (E2 82), a length of 1 mod 4, padding inside
RawBodies == {<<47, 119, 61, 61>>, <<52, 111, 73, 61>>, <<81>>, <<81, 61, 81, 61>>}

\* 'Production Test Report'
Filler == <<80, 114, 111, 100, 117, 99, 116, 105, 111, 110, 32, 84, 101, 115,
            116, 32, 82, 101, 112, 111, 114, 116>>

\* the zero-width characters of the bits of a base64 text, no sentinel
ZWBitsOf(b64) == SubSeq(ZWFrame(b64), Len(ZWS) + 1, Len(ZWFrame(b64)) - Len(ZWS))

\* page items that are no payload: nothing, the form's text, delimiters
\* without their counterpart ('<<<RIRDATA::6f|eyJ4', 'DATA::eyJ4IjoxfQ==',
\* '::END DATA::eyJ4'), stray zero-width characters, the bits of 'QQ==' and
\* of the base64 of {"x":1} without a sentinel, a lone U+200D
PartialTexts ==
    { EMBED_START \o <<54, 102, 124, 101, 121, 74, 52>>,
      LEGACY_START \o b64EncodeUTF8(P_x1),
      LEGACY_END \o <<32>> \o LEGACY_START \o <<101, 121, 74, 52>> }
StrayZW ==
    { <<ZW0>>, <<ZW0, ZW1, ZW0>>, <<ZWJ>>,
      ZWBitsOf(<<81, 81, 61, 61>>), ZWBitsOf(b64EncodeUTF8(P_x1)) }
\* a sentinel-framed stream of 12 bits, and an encoder's output that lost
\* its last bit
ShortZW ==
    { ZWS \o SubSeq(ZWBitsOf(<<81, 81>>), 1, 12) \o ZWS,
      SubSeq(encodeZW(P_x1), 1, Len(encodeZW(P_x1)) - Len(ZWS) - 1) \o ZWS }
OtherTexts == {<<>>, Filler} \cup PartialTexts \cup StrayZW \cup ShortZW

\* runs of spaces and newlines
WsRuns == {<<32>>, <<10>>, <<32, 10, 32>>}
\* the line widths of a reflow; 0: one break only
ReflowSteps == {0, 1, 16}
\* what else the extraction puts into a line: a hyphen, U+200B, '::'
InjectRuns == {<<45>>, <<ZW0>>, <<58, 58>>}
\* the base64 characters, padding included
B64Alphabet == { B64Char(i) : i \in 0..63 } \cup {61}
\* the replacement characters of the spans that are combined with another
LightChars == {65, 47}

(***************************************************************************)
(* A span is one text item of the extracted page: a payload in one of the  *)
(* three formats, as the encoders wrote it (raw: around a given base64     *)
(* text), then damaged by the extraction: sub = <<p, c>> replaces the body *)
(* character at p by c; ins = <<off, step, run>> inserts the whitespace    *)
(* run after off body characters and then after every step more (into the *)
(* base64 of a legacy span: a run of any characters outside base64).        *)
(***************************************************************************)
Span(kind, payload, raw) ==
    [kind |-> kind, payload |-> payload, raw |-> raw, sub |-> <<>>, ins |-> <<>>]

SpanB64(sp) == IF sp.raw THEN sp.payload ELSE b64EncodeUTF8(sp.payload)

\* an older version's DATA::<base64>::END line
LegacyFrame(b64) == LEGACY_START \o b64 \o LEGACY_END

\* the span as the encoder wrote it
CleanText(sp) ==
    CASE sp.kind = "marker" ->
           IF sp.raw THEN MarkerFrame(sp.payload) ELSE makeMarkerPayload(sp.payload)
      [] sp.kind = "zw" ->
           IF sp.raw THEN ZWFrame(sp.payload) ELSE encodeZW(sp.payload)
      [] sp.kind = "legacy" -> LegacyFrame(SpanB64(sp))
      [] OTHER -> sp.payload

\* the body of a marker text: between the first '|' and the end delimiter
BodyFrom(t) == IndexOf(t, <<124>>, 1) + 1
BodyTo(t) == Len(t) - Len(EMBED_END)

\* the offsets at which the reflow ins breaks a body of n characters
BreakOffsets(n, ins) ==
    IF ins = <<>> THEN {}
    ELSE IF ins[2] = 0 THEN {ins[1]}
    ELSE { o \in ins[1]..n : (o - ins[1]) % ins[2] = 0 }

InsertRuns(body, ins) ==
    LET at == BreakOffsets(Len(body), ins)
    IN  Flatten([i \in 1..(Len(body) + 1) |->
                    (IF i = 1 THEN <<>> ELSE <<body[i - 1]>>)
                    \o (IF (i - 1) \in at THEN ins[3] ELSE <<>>)])

CleanBody(sp) == LET t == CleanText(sp) IN SubSeq(t, BodyFrom(t), BodyTo(t))
DamagedBody(sp) ==
    LET b == CleanBody(sp)
        s == IF sp.sub = <<>> THEN b ELSE [b EXCEPT ![sp.sub[1]] = sp.sub[2]]
    IN  InsertRuns(s, sp.ins)

\* the span as the extraction returns it
SpanText(sp) ==
    IF sp.kind = "marker"
    THEN LET t == CleanText(sp)
         IN  SubSeq(t, 1, BodyFrom(t) - 1) \o DamagedBody(sp) \o EMBED_END
    ELSE IF sp.kind = "legacy"
    THEN LegacyFrame(InsertRuns(SpanB64(sp), sp.ins))
    ELSE CleanText(sp)

SpansText(sps) == PageText([i \in 1..Len(sps) |-> SpanText(sps[i])])

VARIABLES
    spans,      \* codec specification: the spans of the extracted page
    cText,      \* codec specification: the text handed to the decoders
    mLoaded,    \* merge specification: the parsed value of a loaded document
    mMerged,    \* merge specification: mergeWithDefault(mLoaded), once called
    mDropped,   \* merge specification: the paths removed from the document
    mExtras,    \* merge specification: the paths added to the document
    data,       \* App: the form state (useState data)
    errors,     \* App: the keys of errors that hold true
    vacAInvalid,\* App: the flag of a VAC A entry that is no number
    now,        \* the day todayLocal() returns
    printed,    \* the form states the user has printed to a PDF, in order
    imp,        \* the calls of handlePdfImport: each in flight, ended or not begun
    bridge,     \* bridge specification: a text, its base64 and the way back
    zw,         \* variants specification: a JSON text, the zero-width text
                \* one variant's encodeZW made of it, and what one variant's
                \* decodeZWFromText read back
    emptyObj,   \* App: the contents of the object empty refers to (useMemo)
    dataIsEmpty \* App: the state data is that very object

codecVars == <<spans, cText>>
mergeVars == <<mLoaded, mMerged, mDropped, mExtras>>
appVars == <<data, errors, vacAInvalid, now, printed, imp>>
bridgeVars == <<bridge>>
variantVars == <<zw>>
heapVars == <<emptyObj, dataIsEmpty>>
vars == <<codecVars, mergeVars, appVars, bridgeVars, variantVars, heapVars>>

(***************************************************************************)
(* Bridge specification: a text of code units goes through b64EncodeUTF8   *)
(* and the result through b64DecodeUTF8.                                   *)
(***************************************************************************)
\* the longest text
MaxTextLen == 3

\* a, micro sign, rightwards arrow, U+FEFF, U+FFFD, the two halves of a
\* surrogate pair
BridgeAlphabet == {97, 181, 8594, 65279, 65533, 55357, 56832}
BridgeTexts == UNION { [1..k -> BridgeAlphabet] : k \in 0..MaxTextLen }

\* a valid Unicode text: every surrogate is half of a pair
WellFormed(t) ==
    \A i \in 1..Len(t) :
        /\ IsHighSurrogate(t[i]) => (i < Len(t) /\ IsLowSurrogate(t[i + 1]))
        /\ IsLowSurrogate(t[i]) => (i > 1 /\ IsHighSurrogate(t[i - 1]))

BridgeIdle == [stage |-> "idle", text |-> <<>>, b64 |-> <<>>, back |-> Thrown]

BridgeEncode(t) ==
    /\ bridge.stage = "idle"
    /\ bridge' = [stage |-> "encoded", text |-> t, b64 |-> b64EncodeUTF8(t),
                  back |-> Thrown]
    /\ UNCHANGED <<codecVars, mergeVars, appVars, variantVars, heapVars>>

BridgeDecode ==
    /\ bridge.stage = "encoded"
    /\ bridge' = [bridge EXCEPT !.stage = "decoded",
                                !.back = b64DecodeUTF8(bridge.b64)]
    /\ UNCHANGED <<codecVars, mergeVars, appVars, variantVars, heapVars>>

BridgeStart == bridge = BridgeIdle

BridgeNext ==
    \/ \E t \in BridgeTexts : BridgeEncode(t)
    \/ BridgeDecode

(***************************************************************************)
(* C14: for every valid Unicode text T, b64DecodeUTF8(b64EncodeUTF8(T))    *)
(* returns T.                                                              *)
(***************************************************************************)
C14_BridgeRoundTrip ==
    (bridge.stage = "decoded" /\ WellFormed(bridge.text))
        => bridge.back = Ok(bridge.text)

\* the same for the texts that do not begin with U+FEFF
C14_RoundTripWithoutBOM ==
    (bridge.stage = "decoded" /\ WellFormed(bridge.text)
       /\ (bridge.text = <<>> \/ bridge.text[1] # 65279))
        => bridge.back = Ok(bridge.text)

(***************************************************************************)
(* Variants specification: the JSON text of a form state, with a comment   *)
(* typed by the user, goes through the encodeZW of one App variant and the *)
(* result through the decodeZWFromText of one.                             *)
(***************************************************************************)
\* a, ", micro sign, Greek capital omega, rightwards arrow
VariantAlphabet == {97, 34, 181, 937, 8594}
VariantTexts == UNION { [1..k -> VariantAlphabet] : k \in 0..MaxTextLen }
Variants == {"first", "last"}

\* JSON.stringify(data) for the default state with the comment t
JsonOfComment(t) ==
    JSONstringify(setAtPath(defaultFormData(1), <<K_comments>>, JStr(t)))

encodeZWOf(v, jsonStr) ==
    IF v = "first" THEN encodeZW_first(jsonStr) ELSE Ok(encodeZW(jsonStr))
decodeZWFromTextOf(v, text) ==
    IF v = "first" THEN decodeZWFromText_first(text) ELSE decodeZWFromText(text)

VariantIdle ==
    [stage |-> "idle", json |-> <<>>, by |-> "", out |-> Thrown,
     with |-> "", back |-> Null]

\* the render of the variant v computes invisiblePayload
VariantEncode(v, t) ==
    /\ zw.stage = "idle"
    /\ \E json \in {JsonOfComment(t)} :
          zw' = [VariantIdle EXCEPT !.stage = "encoded", !.json = json, !.by = v,
                                    !.out = encodeZWOf(v, json)]
    /\ UNCHANGED <<codecVars, mergeVars, appVars, bridgeVars, heapVars>>

\* the restore of the variant v reads the printed text
VariantDecode(v) ==
    /\ zw.stage = "encoded"
    /\ zw.out.ok
    /\ zw' = [zw EXCEPT !.stage = "decoded", !.with = v,
                         !.back = decodeZWFromTextOf(v, zw.out.v)]
    /\ UNCHANGED <<codecVars, mergeVars, appVars, bridgeVars, heapVars>>

VariantStart == zw = VariantIdle

VariantNext ==
    \/ \E v \in Variants, t \in VariantTexts : VariantEncode(v, t)
    \/ \E v \in Variants : VariantDecode(v)

IsAscii(t) == \A i \in 1..Len(t) : t[i] < 128
IsLatin1(t) == \A i \in 1..Len(t) : t[i] < 256

(***************************************************************************)
(* C24: in the first variant encodeZW does not throw, and                  *)
(* decodeZWFromText(encodeZW(J)) returns exactly J, for the JSON text J of *)
(* every form state, those with characters above U+00FF included.          *)
(***************************************************************************)
C24_FirstVariantRoundTrip ==
    /\ (zw.stage # "idle" /\ zw.by = "first") => zw.out.ok
    /\ (zw.stage = "decoded" /\ zw.by = "first" /\ zw.with = "first")
          => zw.back = Found(zw.json)

\* the same for the texts without a character above U+00FF
C24_FirstVariantLatin1 ==
    /\ (zw.stage # "idle" /\ zw.by = "first" /\ IsLatin1(zw.json)) => zw.out.ok
    /\ (zw.stage = "decoded" /\ zw.by = "first" /\ zw.with = "first")
          => zw.back = Found(zw.json)
\* and the first variant throws for every other text
C24_FirstVariantThrows ==
    (zw.stage # "idle" /\ zw.by = "first" /\ ~IsLatin1(zw.json)) => ~zw.out.ok

(***************************************************************************)
(* C30: for a JSON text of ASCII characters only, the decodeZWFromText of  *)
(* each variant returns the text from the encodeZW output of the other     *)
(* variant (and the two outputs are the same text).                        *)
(***************************************************************************)
C30_VariantsInterchangeable ==
    /\ (zw.stage # "idle" /\ IsAscii(zw.json))
          => zw.out.ok /\ zw.out.v = encodeZW(zw.json)
    /\ (zw.stage = "decoded" /\ IsAscii(zw.json)) => zw.back = Found(zw.json)

\* a document of the first variant, a quote in its comment, was read by
\* the last variant
C30_Witness ==
    /\ zw.stage = "decoded"
    /\ zw.by = "first" /\ zw.with = "last"
    /\ zw.json = JsonOfComment(<<97, 34>>)
    /\ IsAscii(zw.json)
    /\ zw.back = Found(zw.json)

(***************************************************************************)
(* Codec specification: the environment builds an extracted page of one or *)
(* two spans and damages a marker span on it.                              *)
(***************************************************************************)
FirstSpans ==
    { Span(k, j, FALSE) : k \in {"marker", "zw", "legacy"},
                          j \in JsonTexts \cup NonJsonTexts }
      \cup { Span(k, b, TRUE) : k \in {"marker", "zw", "legacy"}, b \in RawBodies }
      \cup { Span("filler", t, FALSE) : t \in OtherTexts }
      \cup { Span("legacy", P_dcc, FALSE) }
SecondSpans ==
    { Span(k, j, FALSE) : k \in {"marker", "zw", "legacy"},
                          j \in SmallPayloads \cup NonJsonTexts }
      \cup { Span(k, b, TRUE) : k \in {"marker", "zw", "legacy"}, b \in RawBodies }
      \cup { Span("filler", t, FALSE) : t \in {Filler} \cup StrayZW }

\* the body of the marker span of a page that holds nothing else: the
\* positions from..to of the page text
PageBodyFrom == BodyFrom(cText)
PageBodyTo == Len(cText) - Len(EMBED_END) - 1

AddFirst(sp) ==
    /\ spans = <<>>
    /\ spans' = <<sp>>
    /\ cText' = PageText(<<SpanText(sp)>>)
    /\ UNCHANGED <<mergeVars, appVars, bridgeVars, variantVars, heapVars>>

\* the extraction reflows the marker line
Reflow ==
    /\ Len(spans) = 1
    /\ spans[1].kind = "marker"
    /\ spans[1].sub = <<>>
    /\ spans[1].ins = <<>>
    /\ LET body == SubSeq(cText, PageBodyFrom, PageBodyTo)
       IN  \E off \in 0..Len(body), step \in ReflowSteps, run \in WsRuns :
             /\ spans' = <<[spans[1] EXCEPT !.ins = <<off, step, run>>]>>
             /\ cText' = SubSeq(cText, 1, PageBodyFrom - 1)
                           \o InsertRuns(body, <<off, step, run>>)
                           \o SubSeq(cText, PageBodyTo + 1, Len(cText))
    /\ UNCHANGED <<mergeVars, appVars, bridgeVars, variantVars, heapVars>>

\* the extraction misreads one base64 character of the marker body
Corrupt ==
    /\ Len(spans) = 1
    /\ spans[1].kind = "marker"
    /\ ~spans[1].raw
    /\ spans[1].sub = <<>>
    /\ spans[1].ins = <<>>
    /\ \E q \in PageBodyFrom..PageBodyTo :
         /\ cText[q] \in B64Alphabet
         /\ \E c \in B64Alphabet \ {cText[q]} :
              /\ spans' = <<[spans[1] EXCEPT !.sub = <<q - PageBodyFrom + 1, c>>]>>
              /\ cText' = [cText EXCEPT ![q] = c]
    /\ UNCHANGED <<mergeVars, appVars, bridgeVars, variantVars, heapVars>>

\* the extraction puts characters that are no base64 into the legacy line
Inject ==
    /\ Len(spans) = 1
    /\ spans[1].kind = "legacy"
    /\ ~spans[1].raw
    /\ spans[1].ins = <<>>
    /\ \E off \in 0..Len(SpanB64(spans[1])), step \in ReflowSteps,
          run \in WsRuns \cup InjectRuns :
         /\ spans' = <<[spans[1] EXCEPT !.ins = <<off, step, run>>]>>
         /\ cText' = PageText(<<LegacyFrame(InsertRuns(SpanB64(spans[1]),
                                                       <<off, step, run>>))>>)
    /\ UNCHANGED <<mergeVars, appVars, bridgeVars, variantVars, heapVars>>

\* a second item on the page, before or after the first
AddSecond(sp, front) ==
    /\ Len(spans) = 1
    /\ spans[1].kind = "legacy" => spans[1].ins = <<>>
    /\ spans[1].payload
         \in SmallPayloads \cup NonJsonTexts \cup RawBodies \cup OtherTexts
    /\ \/ spans[1].sub = <<>> /\ spans[1].ins = <<>>
       \/ spans[1].sub = <<>> /\ sp.kind = "filler"
       \/ /\ spans[1].sub # <<>>
          /\ spans[1].sub[1] = 1
          /\ spans[1].sub[2] \in LightChars
    /\ spans' = IF front THEN <<sp, spans[1]>> ELSE <<spans[1], sp>>
    /\ cText' = IF front
                THEN PageText(<<SpanText(sp), SubSeq(cText, 1, Len(cText) - 1)>>)
                ELSE PageText(<<SubSeq(cText, 1, Len(cText) - 1), SpanText(sp)>>)
    /\ UNCHANGED <<mergeVars, appVars, bridgeVars, variantVars, heapVars>>

\* the page text is the text of its spans
TextOfSpans == cText = SpansText(spans)

CodecStart ==
    /\ spans = <<>>
    /\ cText = SpansText(<<>>)

CodecNext ==
    \/ \E sp \in FirstSpans : AddFirst(sp)
    \/ Reflow
    \/ Corrupt
    \/ Inject
    \/ \E sp \in SecondSpans, front \in BOOLEAN : AddSecond(sp, front)

\* the first span of a kind on the page, 0 when there is none
FirstOfKind(kind) ==
    LET S == { i \in 1..Len(spans) : spans[i].kind = kind }
    IN  IF S = {} THEN 0 ELSE CHOOSE i \in S : \A j \in S : i <= j
\* the span is what the encoder wrote for a JSON text, misreadings apart
Encoded(i) == i > 0 /\ ~spans[i].raw /\ spans[i].payload \in JsonTexts
\* the span is the encoder's output, whitespace inserted in the body apart
Intact(i) == Encoded(i) /\ spans[i].sub = <<>>

(***************************************************************************)
(* C1: when the first marker span of the page text is makeMarkerPayload(J) *)
(* for a JSON text J, tryMarkerPayload returns exactly J, also after runs  *)
(* of spaces and newlines were inserted anywhere in the body.  The span is *)
(* the first when no start delimiter stands in the text ahead of it.       *)
(***************************************************************************)
\* the place of the i-th span in the page text
SpanStart(i) ==
    IF i <= 1 THEN 1 ELSE Len(SpanText(spans[1])) + 2
FirstMarkerAt(i) == IndexOf(cText, EMBED_START, 1) = SpanStart(i)
C1_MarkerRoundTrip ==
    LET i == FirstOfKind("marker")
    IN  (Intact(i) /\ FirstMarkerAt(i))
            => tryMarkerPayload(cText) = Found(spans[i].payload)

\* a marker payload of non-ASCII text behind another item, a run with a
\* newline inserted after every body character, read back exactly
C1_Witness ==
    /\ Len(spans) = 2
    /\ spans[1].kind = "filler"
    /\ spans[2] = [Span("marker", P_uni, FALSE)
                     EXCEPT !.ins = <<0, 1, <<32, 10, 32>> >>]
    /\ tryMarkerPayload(cText) = Found(P_uni)

(***************************************************************************)
(* C3: decodeZWFromText(encodeZW(J)) returns exactly J for every JSON text *)
(* J, texts with characters outside ASCII included.                        *)
(***************************************************************************)
C3_ZWRoundTrip ==
    \A i \in 1..Len(spans) :
        (spans[i].kind = "zw" /\ Encoded(i))
            => decodeZWFromText(encodeZW(spans[i].payload))
                 = Found(spans[i].payload)

\* the text of the spec's scenario, read back from the page
C3_Witness ==
    /\ spans = <<Span("zw", P_uni, FALSE)>>
    /\ JSONparse(P_uni).ok
    /\ Get(JSONparse(P_uni).v, K_comments)
         = JStr(<<181, 937, 32, 177, 32, 8594, 32, 8804>>)
    /\ decodeZWFromText(cText) = Found(P_uni)

(***************************************************************************)
(* C4: after one base64 character of the body of a valid marker payload    *)
(* was replaced by a different one, tryMarkerPayload returns not-found.    *)
(***************************************************************************)
C4_ChecksumRejects ==
    LET i == FirstOfKind("marker")
    IN  (Encoded(i) /\ spans[i].sub # <<>>) => tryMarkerPayload(cText) = Null

\* the spec's scenario: a character in the middle of the body of
\* {"count":3,"rows":["a","b"]}, whose base64 would still decode
C4_Witness ==
    /\ Len(spans) = 1
    /\ spans[1].kind = "marker"
    /\ spans[1].payload = P_count
    /\ spans[1].sub = <<20, 65>>
    /\ b64DecodeUTF8(StripSpace(DamagedBody(spans[1]))).ok
    /\ tryMarkerPayload(cText) = Null

\* the state a restore on day d sets for the JSON text json
ReconciledFrom(json, d) ==
    setAtPath(mergeWithDefault(JSONparse(json).v, d), <<K_header, K_revDate>>,
              JStr(todayLocal(d)))

WithoutSpan(i) == SubSeq(spans, 1, i - 1) \o SubSeq(spans, i + 1, Len(spans))

(***************************************************************************)
(* C9: on a text whose marker span fails its checksum the restore does     *)
(* what it does on the same text without the marker span: a valid          *)
(* zero-width payload, or failing that a valid legacy payload, elsewhere   *)
(* on the page is recovered.                                               *)
(***************************************************************************)
C9_ChecksumFailureAsAbsent ==
    LET i == FirstOfKind("marker")
    IN  (Encoded(i) /\ spans[i].sub # <<>>)
          => LET r == RestoreFromText(cText, now)
                 a == RestoreFromText(SpansText(WithoutSpan(i)), now)
             IN  r.outcome = a.outcome /\ r.state = a.state

\* the delimiters and the base64 of a span are as the encoder of its kind
\* writes them, and the strategy of that kind is the one that reads the page
StrategyResult ==
    CASE spans[1].kind = "marker" -> tryMarkerPayload(cText)
      [] spans[1].kind = "zw" -> decodeZWFromText(cText)
      [] OTHER -> tryLegacyDataBlock(cText)

(***************************************************************************)
(* C10: when a strategy's delimiters match and the base64 between them is  *)
(* malformed, or its bytes are no valid UTF-8 sequence, the strategy       *)
(* returns not-found.                                                      *)
(***************************************************************************)
C10_UndecodableIsNotFound ==
    (Len(spans) = 1 /\ spans[1].raw) => StrategyResult = Null

\* what the strategy of a name returns on the page text
ResultOf(name) ==
    CASE name = "marker" -> tryMarkerPayload(cText)
      [] name = "zw" -> decodeZWFromText(cText)
      [] OTHER -> tryLegacyDataBlock(cText)

(***************************************************************************)
(* C11: when a strategy that the restore runs returns a text, and not      *)
(* not-found, and the text does not parse as JSON, the restore ends with   *)
(* 'Could not read data from PDF', that strategy is the last one it ran,   *)
(* and 'No embedded data found' is not reported.                           *)
(***************************************************************************)
C11_UnparsableTextIsFatal ==
    LET ch == DecodeChain(cText)
        r == RestoreFromText(cText, now)
    IN  \A k \in 1..Len(ch.tried) :
            LET s == ResultOf(ch.tried[k])
            IN  (s.found /\ ~JSONparse(s.text).ok)
                  => (r.outcome = "error" /\ k = Len(ch.tried))

\* the same for the texts that are not empty
C11_UnparsableNonEmptyIsFatal ==
    LET ch == DecodeChain(cText)
        r == RestoreFromText(cText, now)
    IN  \A k \in 1..Len(ch.tried) :
            LET s == ResultOf(ch.tried[k])
            IN  (s.found /\ s.text # <<>> /\ ~JSONparse(s.text).ok)
                  => (r.outcome = "error" /\ k = Len(ch.tried))

\* the page text, and the page text without the newline that ends it (the
\* empty text for a page without items)
PageTexts == {cText, SubSeq(cText, 1, Len(cText) - 1)}
NoMarkerSpan(text) == MarkerMatch(text).at = 0
NoLegacySpan(text) == LegacyMatch(text).at = 0
NoSentinel(text) == IndexOf(text, ZWS, 1) = 0
NoZWBit(text) == \A i \in 1..Len(text) : text[i] \notin {ZW0, ZW1}
NothingFound(text) ==
    /\ tryMarkerPayload(text) = Null
    /\ decodeZWFromText(text) = Null
    /\ tryLegacyDataBlock(text) = Null
    /\ RestoreFromText(text, now).outcome = "notfound"

OnlyLegacy == Len(spans) = 1 /\ spans[1].kind = "legacy" /\ ~spans[1].raw
\* the first '::END' of the page text is the one that ends the span
OwnEndFirst ==
    IndexOf(cText, LEGACY_END, Len(LEGACY_START) + 1)
      = Len(cText) - Len(LEGACY_END)

(***************************************************************************)
(* C15 as stated: from a text that holds only DATA::<base64 of J>::END,    *)
(* with any characters outside the base64 alphabet (whitespace or others)  *)
(* put into the body, tryLegacyDataBlock returns J.                        *)
(***************************************************************************)
C15_LegacyAnyInjection ==
    OnlyLegacy => tryLegacyDataBlock(cText) = Found(spans[1].payload)

(***************************************************************************)
(* C15: tryLegacyDataBlock decodes the first DATA::...::END span, the      *)
(* shortest match, after removing the characters outside the base64        *)
(* alphabet from its body; from a text that holds only DATA::<base64 of    *)
(* J>::END, with characters outside the base64 alphabet put into the body  *)
(* that do not make up '::END' with the base64 after them, it returns J.   *)
(***************************************************************************)
C15_LegacyInjection ==
    (OnlyLegacy /\ OwnEndFirst)
        => tryLegacyDataBlock(cText) = Found(spans[1].payload)

\* the spec's scenario {"x":1}, a hyphen ahead of every base64 character
C15_Witness ==
    /\ spans = <<[Span("legacy", P_x1, FALSE) EXCEPT !.ins = <<0, 1, <<45>> >>]>>
    /\ JSONparse(P_x1).v = JObj(<< <<K_x, JNum(1)>> >>)
    /\ Len(cText) > 2 * Len(b64EncodeUTF8(P_x1))
    /\ tryLegacyDataBlock(cText) = Found(P_x1)

\* the first non-empty segment, between sentinels, of the zero-width
\* characters of a text
FirstSegment(text) ==
    FirstZWPart(SelectSeq(text, LAMBDA c : c \in {ZW0, ZW1, ZWJ}), 1)

(***************************************************************************)
(* C13: decodeZWFromText returns not-found, and does not throw, for a text *)
(* whose first non-empty sentinel-delimited segment of zero-width          *)
(* characters has a length that is no multiple of 8.                       *)
(***************************************************************************)
C13_OddLengthNotFound ==
    \A text \in PageTexts :
        (FirstSegment(text) # <<>> /\ Len(FirstSegment(text)) % 8 # 0)
            => decodeZWFromText(text) = Null

\* a stray U+200B ahead of a valid zero-width payload
C13_Witness ==
    /\ spans = <<Span("filler", <<ZW0>>, FALSE), Span("zw", P_x1, FALSE)>>
    /\ FirstSegment(cText) = <<ZW0>>
    /\ decodeZWFromText(SpanText(spans[2])) = Found(P_x1)
    /\ decodeZWFromText(cText) = Null

\* the first span is a marker payload with a misread base64 character
FirstCorrupted ==
    spans[1].kind = "marker" /\ Encoded(1) /\ spans[1].sub # <<>>
\* the first span is the head of a marker payload, '<<<RIRDATA::6f|eyJ4',
\* cut off ahead of its end delimiter
FirstUnended ==
    /\ spans[1].kind = "filler"
    /\ MatchAt(spans[1].payload, 1, EMBED_START)
    /\ IndexOf(spans[1].payload, EMBED_END, 1) = 0
\* an intact marker payload follows the first span
LaterIntactCopy ==
    Len(spans) = 2 /\ spans[2].kind = "marker" /\ Intact(2)

(***************************************************************************)
(* C26: tryMarkerPayload examines the first match of start delimiter,      *)
(* checksum, body and end delimiter only: its result is the one for the    *)
(* text up to the end of that match.  When the first marker payload of the *)
(* text has a misread character, or was cut off ahead of its end delimiter *)
(* so that the match runs on to the end delimiter of a later copy, the     *)
(* result is not-found although an intact marker payload follows.          *)
(***************************************************************************)
C26_FirstMatchOnly ==
    LET m == MarkerMatch(cText)
    IN  /\ m.at # 0
            => tryMarkerPayload(cText) = tryMarkerPayload(SubSeq(cText, 1, m.end))
        /\ (LaterIntactCopy /\ FirstCorrupted)
            => /\ m.end = Len(SpanText(spans[1]))
               /\ tryMarkerPayload(cText) = Null
        /\ (LaterIntactCopy /\ FirstUnended)
            => /\ m.at = 1
               /\ m.end = Len(cText) - 1
               /\ tryMarkerPayload(cText) = Null

\* a cut-off head ahead of the marker payload of {"x":1}, which alone on
\* the page is found
C26_Witness ==
    /\ spans = <<Span("filler", EMBED_START \o <<54, 102, 124, 101, 121, 74, 52>>,
                      FALSE),
                 Span("marker", P_x1, FALSE)>>
    /\ tryMarkerPayload(SpanText(spans[2]) \o <<10>>) = Found(P_x1)
    /\ MarkerMatch(cText).end = Len(cText) - 1
    /\ tryMarkerPayload(cText) = Null

\* the zero-width characters of a text, in their order
ZWOnly(text) == SelectSeq(text, LAMBDA c : c \in {ZW0, ZW1, ZWJ})
\* the text with a run of characters put in after its first n characters
InsertAt(text, n, run) ==
    SubSeq(text, 1, n) \o run \o SubSeq(text, n + 1, Len(text))
\* runs of characters that are none of the three: whitespace, a hyphen, a
\* base64 text, a start delimiter
OtherRuns == {<<32, 10, 32>>, <<45>>, <<81, 81, 61, 61>>, EMBED_START}
\* the page text and what it becomes when a run of other characters is put
\* in at the start, in the middle of the zero-width characters, at the end
Interleaved ==
    {cText} \cup { InsertAt(cText, n, run) :
                      n \in {0, Len(cText) \div 2, Len(cText)},
                      run \in OtherRuns }

(***************************************************************************)
(* C25: the result of decodeZWFromText, of the last variant and of the     *)
(* first, is the result for the zero-width characters U+200B, U+200C and   *)
(* U+200D of the text alone: putting other characters in, or taking them   *)
(* out, anywhere in the text does not change it.                           *)
(***************************************************************************)
C25_OnlyZeroWidthCounts ==
    \A text \in Interleaved :
        /\ ZWOnly(text) = ZWOnly(cText)
        /\ decodeZWFromText(text) = decodeZWFromText(ZWOnly(cText))
        /\ decodeZWFromText_first(text) = decodeZWFromText_first(ZWOnly(cText))

\* the form's text ahead of the payload of {"x":1} and a line break after
\* it: taken out, the payload reads the same
C25_Witness ==
    /\ spans = <<Span("filler", Filler, FALSE), Span("zw", P_x1, FALSE)>>
    /\ ZWOnly(cText) = encodeZW(P_x1)
    /\ Len(cText) > Len(encodeZW(P_x1)) + Len(Filler)
    /\ decodeZWFromText(cText) = Found(P_x1)
    /\ decodeZWFromText(ZWOnly(cText)) = Found(P_x1)

(***************************************************************************)
(* Merge specification: a document of the current shape loses fields (an   *)
(* older schema) and gains unknown ones (a newer schema), and is then      *)
(* reconciled with the default.                                            *)
(***************************************************************************)
\* the most fields a document lacks, and the most unknown fields it carries
MaxDrops == 2
MaxExtras == 1

K_0 == <<48>>
K_1 == <<49>>
K_bonus == <<98, 111, 110, 117, 115>>

\* a document written with every field of the current shape filled in
FullRecord ==
    JObj(<< <<K_header, JObj(<< <<K_apparatusType, JStr(<<71, 69>>)>>,
                               <<K_deviceSerial, JStr(<<83, 49>>)>>,
                               <<K_customerOrder, JStr(<<55>>)>>,
                               <<K_revision, JStr(<<66>>)>>,
                               <<K_revDate, JStr(DateText(2))>> >>)>>,
            <<K_section1, JObj(<< <<K_vacA, JNum(120)>> >>)>>,
            <<K_section2,
              JObj(<< <<K_longTimePickup,
                        JObj(<< <<K_settings, JStr(<<120>>)>> >>)>> >>)>>,
            <<K_section7,
              JObj(<< <<K_rows,
                        JArr(<< JObj(<< <<K_label, JStr(<<181, 937>>)>>,
                                        <<K_a, JNum(5)>> >>),
                                JObj(<< <<K_label, JStr(<<78, 47, 65>>)>>,
                                        <<K_a, JNum(7)>> >>) >>)>> >>)>>,
            <<K_comments, JStr(<<181, 937, 32, 177, 32, 8594, 32, 8804>>)>> >>)

\* obj.k1.k2...: whether the path leads to a value, and the value
RECURSIVE HasPath(_, _)
HasPath(obj, path) ==
    IF path = <<>> THEN TRUE
    ELSE In(obj, path[1]) /\ HasPath(At(obj, path[1]), Tail(path))
RECURSIVE GetPath(_, _)
GetPath(obj, path) ==
    IF path = <<>> THEN obj ELSE GetPath(At(obj, path[1]), Tail(path))

\* the record without the member key
Without(obj, key) == JObj(SelectSeq(obj.v, LAMBDA m : m[1] # key))
\* the document without the field at the path
RECURSIVE RemoveAt(_, _)
RemoveAt(obj, path) ==
    IF Len(path) = 1 THEN Without(obj, path[1])
    ELSE Assign(obj, path[1], RemoveAt(At(obj, path[1]), Tail(path)))

\* the paths of the records of the full document, and of their fields
RecordPaths ==
    { <<>>, <<K_header>>, <<K_section1>>, <<K_section2>>,
      <<K_section2, K_longTimePickup>>, <<K_section7>>,
      <<K_section7, K_rows, K_0>>, <<K_section7, K_rows, K_1>> }
FieldPaths ==
    UNION { { Append(p, k) : k \in Range(Keys(GetPath(FullRecord, p))) } :
            p \in RecordPaths }

DropField(path) ==
    /\ mMerged = JNull
    /\ Cardinality(mDropped) < MaxDrops
    /\ HasPath(mLoaded, path)
    /\ mLoaded' = RemoveAt(mLoaded, path)
    /\ mDropped' = mDropped \cup {path}
    /\ UNCHANGED <<mMerged, mExtras, codecVars, appVars, bridgeVars, variantVars, heapVars>>

AddExtra(path, key, val) ==
    /\ mMerged = JNull
    /\ Cardinality(mExtras) < MaxExtras
    /\ HasPath(mLoaded, path)
    /\ ~HasKey(GetPath(mLoaded, path), key)
    /\ mLoaded' = setAtPath(mLoaded, Append(path, key), val)
    /\ mExtras' = mExtras \cup {Append(path, key)}
    /\ UNCHANGED <<mMerged, mDropped, codecVars, appVars, bridgeVars, variantVars, heapVars>>

\* the document has another kind of value where the shape has a field
OverwritePaths ==
    { <<K_comments>>, <<K_section1>>, <<K_section1, K_vacA>>,
      <<K_section7, K_rows>> }
OverwriteValues == { JNull, JNum(0), JArr(<<>>), JObj(<<>>) }
Overwrite(path, val) ==
    /\ mMerged = JNull
    /\ mLoaded = FullRecord
    /\ mLoaded' = setAtPath(mLoaded, path, val)
    /\ UNCHANGED <<mMerged, mDropped, mExtras, codecVars, appVars, bridgeVars, variantVars, heapVars>>

\* const merged = mergeWithDefault(loaded)
Reconcile ==
    /\ mMerged = JNull
    /\ mMerged' = mergeWithDefault(mLoaded, now)
    /\ UNCHANGED <<mLoaded, mDropped, mExtras, codecVars, appVars, bridgeVars, variantVars, heapVars>>

MergeStart ==
    /\ mLoaded = FullRecord
    /\ mMerged = JNull
    /\ mDropped = {}
    /\ mExtras = {}

MergeNext ==
    \/ \E path \in FieldPaths : DropField(path)
    \/ \E path \in RecordPaths, val \in {JNum(1), JSONparse(P_x1).v} :
         AddExtra(path, K_bonus, val)
    \/ \E path \in OverwritePaths, val \in OverwriteValues : Overwrite(path, val)
    \/ Reconcile

\* the field lies in an element of the rows
InRow(path) == \E i \in 1..Len(path) : IsIndexKey(path[i])
\* the default's value for the field; every row has the fields of the
\* default's row
DefaultAt(path) ==
    GetPath(defaultFormData(now),
            [i \in 1..Len(path) |-> IF IsIndexKey(path[i]) THEN K_0 ELSE path[i]])
\* the fields of the current shape the document lacks; a field of a row
\* counts for the rows the document has, a field of a record for a record
\* of the document or for one the document lacks
RECURSIVE LacksIn(_, _)
LacksIn(obj, path) ==
    /\ obj.k = "obj" \/ (obj.k = "arr" /\ Len(path) > 1)
    /\ IF In(obj, path[1])
       THEN Len(path) > 1 /\ LacksIn(At(obj, path[1]), Tail(path))
       ELSE obj.k = "obj"
Lacking ==
    { p \in FieldPaths :
        /\ LacksIn(mLoaded, p)
        /\ InRow(p) => HasPath(mLoaded, SubSeq(p, 1, 3)) }
\* the fields the document has a value for: a text, a number, null, or the
\* rows
Present ==
    { p \in FieldPaths : HasPath(mLoaded, p) /\ GetPath(mLoaded, p).k # "obj" }
KeepsPresent == \A p \in Present : GetPath(mMerged, p) = GetPath(mLoaded, p)
Defaulted(p) == HasPath(mMerged, p) /\ GetPath(mMerged, p) = DefaultAt(p)

(***************************************************************************)
(* C7, as stated: after reconciling a document that lacks a field of the   *)
(* current shape, at any depth, the field has the default's value, and     *)
(* every field the document has keeps the document's value.                *)
(***************************************************************************)
C7_LackingDefaultedAnyDepth ==
    mMerged # JNull => (\A p \in Lacking : Defaulted(p)) /\ KeepsPresent

(***************************************************************************)
(* C7, amended: the same for the fields outside the rows; the rows of the  *)
(* document replace the default's rows as a whole.                         *)
(***************************************************************************)
C7_LackingDefaulted ==
    mMerged # JNull =>
        /\ \A p \in Lacking : ~InRow(p) => Defaulted(p)
        /\ KeepsPresent
        /\ (HasPath(mLoaded, <<K_section7, K_rows>>)
              /\ GetPath(mLoaded, <<K_section7, K_rows>>).k = "arr")
             => GetPath(mMerged, <<K_section7, K_rows>>)
                  = GetPath(mLoaded, <<K_section7, K_rows>>)

\* a field three records deep and a header field are lacking and come back
\* with the default's values, next to the document's own values
C7_Witness ==
    /\ mMerged # JNull
    /\ mDropped = {<<K_section2, K_longTimePickup, K_settings>>,
                   <<K_header, K_revision>>}
    /\ GetPath(mMerged, <<K_section2, K_longTimePickup, K_settings>>) = JStr(<<>>)
    /\ GetPath(mMerged, <<K_header, K_revision>>) = JStr(<<65>>)
    /\ GetPath(mMerged, <<K_header, K_deviceSerial>>) = JStr(<<83, 49>>)
    /\ GetPath(mMerged, <<K_section1, K_vacA>>) = JNum(120)

\* the paths that lead through the records of a value to their members
RECURSIVE MemberPaths(_)
MemberPaths(obj) ==
    IF obj.k # "obj" THEN {}
    ELSE UNION { {<<m[1]>>} \cup { <<m[1]>> \o q : q \in MemberPaths(m[2]) } :
                 m \in Range(obj.v) }
\* the default's record at the path; {} where it has none
DefaultRecordAt(path) ==
    IF HasPath(defaultFormData(now), path)
       /\ GetPath(defaultFormData(now), path).k = "obj"
    THEN GetPath(defaultFormData(now), path)
    ELSE JObj(<<>>)
\* the default has a sequence at the path
DefaultSequenceAt(path) ==
    HasPath(defaultFormData(now), path)
      /\ GetPath(defaultFormData(now), path).k = "arr"
\* the reconciled record at the path has the members of the document's
\* record and, with the default's values, the other members of the default's
RecordMerged(path) ==
    LET val == GetPath(mLoaded, path)
        def == DefaultRecordAt(path)
        out == GetPath(mMerged, path)
    IN  /\ out.k = "obj"
        /\ Range(Keys(out)) = Range(Keys(val)) \cup Range(Keys(def))
        /\ \A key \in Range(Keys(def)) \ Range(Keys(val)) :
              Get(out, key) = Get(def, key)

(***************************************************************************)
(* C20: in the reconciled state, for each key of the loaded value and of   *)
(* its nested records: a sequence is the loaded sequence unchanged (the    *)
(* empty one and one whose rows lack fields too), a nested record is the   *)
(* merge of that record with the default at the key, and any other value   *)
(* (a text, a number, null) stands in place of the default's value.        *)
(***************************************************************************)
C20_PerKeyMerge ==
    mMerged # JNull =>
        /\ RecordMerged(<<>>)
        /\ \A p \in MemberPaths(mLoaded) :
              /\ HasPath(mMerged, p)
              /\ IF GetPath(mLoaded, p).k = "obj"
                 THEN IF DefaultSequenceAt(p)
                      THEN GetPath(mMerged, p) = GetPath(defaultFormData(now), p)
                      ELSE RecordMerged(p)
                 ELSE GetPath(mMerged, p) = GetPath(mLoaded, p)

\* an empty sequence of rows has replaced the default's row
C20_Witness ==
    /\ mMerged # JNull
    /\ HasPath(mLoaded, <<K_section7, K_rows>>)
    /\ GetPath(mLoaded, <<K_section7, K_rows>>) = JArr(<<>>)
    /\ GetPath(defaultFormData(now), <<K_section7, K_rows>>).v # <<>>
    /\ GetPath(mMerged, <<K_section7, K_rows>>) = JArr(<<>>)
    /\ ~HasPath(mLoaded, <<K_header, K_revision>>)
    /\ GetPath(mMerged, <<K_header, K_revision>>) = JStr(<<65>>)

(***************************************************************************)
(* C8: after reconciling a document that carries a key the default does    *)
(* not have, the key is not in the reconciled state.                       *)
(***************************************************************************)
C8_UnknownKeyDropped ==
    mMerged # JNull => \A p \in mExtras : ~HasPath(mMerged, p)

(***************************************************************************)
(* The App component.  A handlePdfImport call runs in steps, one per        *)
(* await, and the other handlers and other calls run in between.           *)
(***************************************************************************)
\* the most optional fields that differ from the defaults, the most rows,
\* the last day, the most documents printed
MaxEdited == 1
MaxRows == 2
MaxDay == 2
MaxPrints == 1
\* the most calls of handlePdfImport that are in flight together
MaxCalls == 2
Calls == 1..MaxCalls

P_apparatusType == <<K_header, K_apparatusType>>
P_deviceSerial == <<K_header, K_deviceSerial>>
P_customerOrder == <<K_header, K_customerOrder>>
P_revision == <<K_header, K_revision>>
P_revDate == <<K_header, K_revDate>>
P_vacA == <<K_section1, K_vacA>>
P_rows == <<K_section7, K_rows>>
P_comments == <<K_comments>>

\* const empty = useMemo(() => defaultFormData(), []): the default of the
\* day the component mounted
empty == defaultFormData(1)

\* what the user types or selects in the inputs that call update
Edits ==
    { <<P_apparatusType, JStr(<<>>)>>, <<P_apparatusType, JStr(<<71, 69>>)>>,
      <<P_deviceSerial, JStr(<<>>)>>, <<P_deviceSerial, JStr(<<83, 49>>)>>,
      <<P_customerOrder, JStr(<<>>)>>, <<P_customerOrder, JStr(<<55>>)>>,
      <<P_revision, JStr(<<65>>)>>, <<P_revision, JStr(<<66>>)>>,
      <<P_comments, JStr(<<>>)>>,
      <<P_comments, JStr(<<181, 937, 32, 177, 32, 8594, 32, 8804>>)>> }

\* the optional fields of d, the revision date apart, that differ from the
\* defaults
Edited(d) ==
    Cardinality({ q \in {P_revision, P_vacA, P_rows, P_comments} :
                    GetPath(d, q) # GetPath(empty, q) })

\* str.trim()
Trim(str) ==
    LET keep == { i \in 1..Len(str) : ~IsJsSpace(str[i]) }
    IN  IF keep = {} THEN <<>>
        ELSE SubSeq(str, CHOOSE i \in keep : \A j \in keep : i <= j,
                         CHOOSE i \in keep : \A j \in keep : i >= j)

\* an update that stamps the revision date whatever the path
UpdatedData_StampAlways(path, value) ==
    setAtPath(setAtPath(data, path, value), P_revDate, JStr(todayLocal(now)))

\* the setData and setErrors of update(path, value)
UpdatedData(path, value) ==
    LET clone == setAtPath(data, path, value)
    IN  IF path = P_revision
        THEN setAtPath(clone, P_revDate, JStr(todayLocal(now)))
        ELSE clone
UpdatedErrors(path) ==
    IF path \in {P_deviceSerial, P_customerOrder, P_apparatusType}
    THEN errors \ {path}
    ELSE errors

\* an update that hands the state object itself to setAtPath
UpdatedOriginal_NoClone(path, value) == UpdatedData(path, value)

\* the contents of the object d after the callback of setData: setAtPath
\* and the assignment of revDate write into structuredClone(d), a new
\* object, and d keeps what it held
UpdatedOriginal(path, value) == data

update(path, value) ==
    /\ Edited(UpdatedData(path, value)) <= MaxEdited
    /\ data' = UpdatedData(path, value)
    /\ errors' = UpdatedErrors(path)
    /\ emptyObj' = IF dataIsEmpty THEN UpdatedOriginal(path, value) ELSE emptyObj
    /\ dataIsEmpty' = FALSE

\* an input's onChange
Update(path, value) ==
    /\ update(path, value)
    /\ UNCHANGED <<vacAInvalid, now, printed, imp, codecVars, mergeVars, bridgeVars, variantVars>>

\* the onChange of VAC A: '' clears the field, a decimal number sets it,
\* anything else raises the flag and leaves the field
IsDecimal(raw) ==
    /\ raw # <<>>
    /\ \A i \in 1..Len(raw) : IsDigit(raw[i])
VacAChange(raw) ==
    /\ IF raw = <<>>
       THEN vacAInvalid' = FALSE /\ update(P_vacA, JNull)
       ELSE IF IsDecimal(raw)
       THEN vacAInvalid' = FALSE
            /\ update(P_vacA, JNum(DigitsValue(raw, 1, Len(raw), 0)))
       ELSE vacAInvalid' = TRUE /\ UNCHANGED <<data, errors, heapVars>>
    /\ UNCHANGED <<now, printed, imp, codecVars, mergeVars, bridgeVars, variantVars>>

AddRow ==
    /\ Len(GetPath(data, P_rows).v) < MaxRows
    /\ update(P_rows, JArr(Append(GetPath(data, P_rows).v, BlankRow)))
    /\ UNCHANGED <<vacAInvalid, now, printed, imp, codecVars, mergeVars, bridgeVars, variantVars>>

\* a removal at the head of the rows
RemoveRow_First ==
    /\ Len(GetPath(data, P_rows).v) # 0
    /\ update(P_rows, JArr(Tail(GetPath(data, P_rows).v)))
    /\ UNCHANGED <<vacAInvalid, now, printed, imp, codecVars, mergeVars, bridgeVars, variantVars>>

RemoveRow ==
    /\ Len(GetPath(data, P_rows).v) # 0
    /\ update(P_rows, JArr(SubSeq(GetPath(data, P_rows).v, 1,
                                  Len(GetPath(data, P_rows).v) - 1)))
    /\ UNCHANGED <<vacAInvalid, now, printed, imp, codecVars, mergeVars, bridgeVars, variantVars>>

\* a validation that does not look at the customer order
validateRequired_NoOrder ==
    { q \in {P_apparatusType} : GetPath(data, q).v = <<>> }
      \cup { q \in {P_deviceSerial} :
               Trim(GetPath(data, q).v) = <<>> }
      \cup { q \in {P_vacA} : vacAInvalid }

\* newErr of validateRequired()
validateRequired ==
    { q \in {P_apparatusType} : GetPath(data, q).v = <<>> }
      \cup { q \in {P_deviceSerial, P_customerOrder} :
               Trim(GetPath(data, q).v) = <<>> }
      \cup { q \in {P_vacA} : vacAInvalid }

\* the print of the page as it is rendered: the DOM holds the payloads of
\* the current data
WindowPrint ==
    printed' = IF validateRequired = {} THEN Append(printed, data) ELSE printed

onSavePdf ==
    /\ Len(printed) < MaxPrints
    /\ errors' = validateRequired
    /\ WindowPrint
    /\ UNCHANGED <<data, vacAInvalid, now, imp, codecVars, mergeVars, bridgeVars, variantVars, heapVars>>

onPrint ==
    /\ Len(printed) < MaxPrints
    /\ errors' = validateRequired
    /\ WindowPrint
    /\ UNCHANGED <<data, vacAInvalid, now, imp, codecVars, mergeVars, bridgeVars, variantVars, heapVars>>

\* setData(empty): the state is the memoized object, with what it holds
reset ==
    /\ data' = emptyObj
    /\ dataIsEmpty' = TRUE
    /\ emptyObj' = emptyObj
    /\ errors' = {}
    /\ vacAInvalid' = FALSE
    /\ UNCHANGED <<now, printed, imp, codecVars, mergeVars, bridgeVars, variantVars>>

\* midnight passes
Tick ==
    /\ now < MaxDay
    /\ now' = now + 1
    /\ UNCHANGED <<data, errors, vacAInvalid, printed, imp, codecVars, mergeVars, bridgeVars, variantVars, heapVars>>

(***************************************************************************)
(* The files the user picks for a restore: each the pages pdf.js reads     *)
(* from it, a page being its text items; getDocument rejects the file     *)
(* that is no PDF, getTextContent rejects the last page of the damaged one.*)
(***************************************************************************)
\* a payload computed once, at the mount of the component
invisiblePayload_OfMount(d) == encodeZW(JSONstringify(empty))

\* invisiblePayload and visibleMarkerPayload for the form state d
invisiblePayload(d) == encodeZW(JSONstringify(d))
visibleMarkerPayload(d) == makeMarkerPayload(JSONstringify(d))

\* the PDF of a print of the form state d: the form's pages, and the
\* print-only block with the two payloads after them
PrintedPage(d, page) ==
    IF page = 1 THEN <<Filler>>
    ELSE <<Filler, invisiblePayload(d), visibleMarkerPayload(d)>>

\* '{"comments":' cut off
BrokenJson == SubSeq(P_uni, 1, 12)

\* two documents of day 1: one saved from the app, one of its shape
SampleA ==
    setAtPath(setAtPath(setAtPath(setAtPath(defaultFormData(1),
        P_apparatusType, JStr(<<71, 69>>)),
        P_deviceSerial, JStr(<<83, 49>>)),
        P_customerOrder, JStr(<<55>>)),
        P_comments, JStr(<<181, 937, 32, 177, 32, 8594, 32, 8804>>))
SampleB == setAtPath(defaultFormData(1), P_revision, JStr(<<66>>))

Files == {"printed", "blank", "badjson", "notpdf", "damaged"}
SampleFiles == {"sampleA", "sampleB"}
FilePage(f, page) ==
    CASE f = "printed" -> PrintedPage(printed[1], page)
      [] f = "sampleA" -> PrintedPage(SampleA, page)
      [] f = "sampleB" -> <<visibleMarkerPayload(SampleB), Filler>>
      [] f = "blank" -> <<Filler>>
      [] f = "number" -> <<Filler, makeMarkerPayload(<<53>>)>>
      [] f = "string" -> <<Filler, encodeZW(<<34, 97, 98, 99, 34>>)>>
      [] f = "boolean" -> <<LegacyFrame(b64EncodeUTF8(<<116, 114, 117, 101>>))>>
      [] f = "null" -> <<makeMarkerPayload(<<110, 117, 108, 108>>), Filler>>
      [] f = "badjson" -> <<Filler, makeMarkerPayload(BrokenJson)>>
      [] f = "damaged" /\ page = 1 -> <<Filler>>
      [] OTHER -> <<>>
NumPages(f) ==
    IF f \in {"printed", "sampleA", "damaged"} THEN 2
    ELSE IF f = "notpdf" THEN 0 ELSE 1
Readable(f, page) == ~(f = "damaged" /\ page = 2)

\* the text of the pages 1..n of the file, as the loop builds it
RECURSIVE TextOfPages(_, _)
TextOfPages(f, n) ==
    IF n = 0 THEN <<>>
    ELSE TextOfPages(f, n - 1) \o PageText(FilePage(f, n))

\* the alerts of handlePdfImport
AlertRestored == "Form data restored from PDF."
AlertNotFound ==
    "No embedded data found. Make sure the PDF was saved from this app."
AlertError == "Could not read data from PDF."
AlertOf(outcome) ==
    CASE outcome = "restored" -> AlertRestored
      [] outcome = "notfound" -> AlertNotFound
      [] OTHER -> AlertError

\* a call of handlePdfImport: where it stands, the file, the page it waits
\* for, the text so far (at the end: the text the decoders were given), the
\* decoders that ran, how it ended, and the alerts it has shown
Idle ==
    [pc |-> "idle", file |-> "", page |-> 0, text |-> <<>>, tried |-> <<>>,
     outcome |-> "", alerts |-> <<>>]
\* a call that starts over after a failure
Done_RetryOnError(call, text, r) ==
    IF r.outcome = "error"
    THEN [Idle EXCEPT !.pc = "open", !.file = call.file]
    ELSE [pc |-> "done", file |-> "", page |-> 0, text |-> text,
          tried |-> r.tried, outcome |-> r.outcome,
          alerts |-> Append(call.alerts, AlertOf(r.outcome))]
\* the call has ended with the result r and has shown the alert of it
Done(call, text, r) ==
    [pc |-> "done", file |-> "", page |-> 0, text |-> text, tried |-> r.tried,
     outcome |-> r.outcome, alerts |-> Append(call.alerts, AlertOf(r.outcome))]
\* the rejection of an await lands in the catch block
Rejected == Outcome("error", JNull, <<>>)

\* the user picks a file: handlePdfImport runs up to its first await
ImportStart(c, f) ==
    /\ imp[c].pc = "idle"
    /\ f = "printed" => printed # <<>>
    /\ imp' = [imp EXCEPT ![c] = [Idle EXCEPT !.pc = "open", !.file = f]]
    /\ UNCHANGED <<data, errors, vacAInvalid, now, printed, codecVars, mergeVars, bridgeVars, variantVars, heapVars>>

\* the user picks the next file after a call has ended; the ended call is
\* followed no longer
ImportAgain(c, f) ==
    /\ imp[c].pc = "done"
    /\ f = "printed" => printed # <<>>
    /\ imp' = [imp EXCEPT ![c] = [Idle EXCEPT !.pc = "open", !.file = f]]
    /\ UNCHANGED <<data, errors, vacAInvalid, now, printed, codecVars, mergeVars, bridgeVars, variantVars, heapVars>>

\* getDocument settles: it rejects, and the catch block alerts 'Could not
\* read data from PDF.', or the loop over the pages begins
ImportOpen(c) ==
    /\ imp[c].pc = "open"
    /\ imp' = [imp EXCEPT ![c] =
                 IF NumPages(imp[c].file) = 0
                 THEN Done(imp[c], <<>>, Rejected)
                 ELSE [imp[c] EXCEPT !.pc = "page", !.page = 1]]
    /\ UNCHANGED <<data, errors, vacAInvalid, now, printed, codecVars, mergeVars, bridgeVars, variantVars, heapVars>>

\* text += the items of the page, joined by ' ', and '\n'
TextWithPage_Prepended(text, f, page) == PageText(FilePage(f, page)) \o text
TextWithPage(text, f, page) == text \o PageText(FilePage(f, page))

\* getTextContent of a page before the last settles
ImportPage(c) ==
    /\ imp[c].pc = "page"
    /\ imp[c].page < NumPages(imp[c].file)
    /\ imp' = [imp EXCEPT ![c] =
                 [imp[c] EXCEPT !.page = @ + 1,
                                !.text = TextWithPage(@, imp[c].file, imp[c].page)]]
    /\ UNCHANGED <<data, errors, vacAInvalid, now, printed, codecVars, mergeVars, bridgeVars, variantVars, heapVars>>

\* a restore that gives way to the edits made while it read the file
AfterImport_UnlessEdited(before, r) ==
    IF r.outcome = "restored" /\ before = empty THEN r.state ELSE before

\* the form state a restore that set nothing leaves is the reset one
AfterImport_ClearOnFailure(before, r) ==
    IF r.outcome = "restored" THEN r.state ELSE empty

\* setData(merged) is reached only behind the return of 'No embedded data
\* found' and behind the statements that throw
AfterImport(before, r) ==
    IF r.outcome = "restored" THEN r.state ELSE before

\* getTextContent of the last page settles, and the rest of handlePdfImport
\* runs to its end
ImportLast(c) ==
    /\ imp[c].pc = "page"
    /\ imp[c].page = NumPages(imp[c].file)
    /\ IF Readable(imp[c].file, imp[c].page)
       THEN \E text \in {TextWithPage(imp[c].text, imp[c].file, imp[c].page)} :
            \E r \in {RestoreFromText(text, now)} :
               /\ data' = AfterImport(data, r)
               /\ vacAInvalid' = IF r.outcome = "restored" THEN FALSE ELSE vacAInvalid
               /\ dataIsEmpty' = IF r.outcome = "restored" THEN FALSE ELSE dataIsEmpty
               /\ imp' = [imp EXCEPT ![c] = Done(imp[c], text, r)]
       ELSE /\ imp' = [imp EXCEPT ![c] = Done(imp[c], <<>>, Rejected)]
            /\ UNCHANGED <<data, vacAInvalid, dataIsEmpty>>
    /\ UNCHANGED <<emptyObj, errors, now, printed, codecVars, mergeVars, bridgeVars, variantVars>>

AppStart ==
    /\ emptyObj = empty
    /\ dataIsEmpty = TRUE
    /\ data = emptyObj
    /\ errors = {}
    /\ vacAInvalid = FALSE
    /\ now = 1
    /\ printed = <<>>
    /\ imp = [c \in Calls |-> Idle]

\* one call of handlePdfImport at a time, and every handler of the form
AppNext ==
    \/ \E e \in Edits : Update(e[1], e[2])
    \/ \E raw \in {<<>>, <<49, 50, 48>>, <<49, 50, 97>>} : VacAChange(raw)
    \/ AddRow
    \/ RemoveRow
    \/ onSavePdf
    \/ onPrint
    \/ reset
    \/ Tick
    \/ \E f \in Files : ImportStart(1, f)
    \/ \E f \in Files : ImportAgain(1, f)
    \/ ImportOpen(1)
    \/ ImportPage(1)
    \/ ImportLast(1)

(***************************************************************************)
(* C2: the form state S that was printed is a state reached by editing     *)
(* from the defaults; a restore from the text of that print, whose last    *)
(* page holds the two payloads derived from S, succeeds and sets a live    *)
(* state equal to S in every field, the revision date apart (the restore   *)
(* re-stamps it), whatever was edited while the file was read.             *)
(***************************************************************************)
ExceptRevDate(d) == setAtPath(d, P_revDate, JStr(<<>>))
RestoreOfPrintEnds ==
    imp[1].pc = "page" /\ imp[1].file = "printed" /\ imp'[1].pc = "done"
C2_PrintRestoreRoundTrip ==
    [][RestoreOfPrintEnds
         => /\ imp'[1].outcome = "restored"
            /\ ExceptRevDate(data') = ExceptRevDate(printed[1])]_vars

\* a print of a form with a non-ASCII comment, rows and a number was
\* restored on a later day over a form that had been reset in between
C2_Witness ==
    /\ imp[1].pc = "done" /\ imp[1].outcome = "restored"
    /\ printed # <<>>
    /\ now = 2
    /\ GetPath(printed[1], P_revDate) = JStr(todayLocal(1))
    /\ GetPath(printed[1], P_comments)
         = JStr(<<181, 937, 32, 177, 32, 8594, 32, 8804>>)
    /\ GetPath(data, P_revDate) = JStr(todayLocal(2))
    /\ ExceptRevDate(data) = ExceptRevDate(printed[1])
    /\ data # printed[1]

(***************************************************************************)
(* C6: a restore that ends with 'No embedded data found' or with 'Could    *)
(* not read data from PDF' (a JSON parse failure, a rejected getDocument   *)
(* or getTextContent) leaves the live form state as it was; no step of a   *)
(* restore changes the form state except the one that ends it with         *)
(* success.                                                                *)
(***************************************************************************)
RestoreStep == imp' # imp
RestoreSucceeds ==
    \E c \in Calls :
        imp[c].pc = "page" /\ imp'[c].pc = "done" /\ imp'[c].outcome = "restored"
C6_FailedRestoreKeepsState ==
    [][(RestoreStep /\ ~RestoreSucceeds)
         => UNCHANGED <<data, errors, vacAInvalid>>]_vars

\* a restore has failed over a form that holds edits and a flagged field
C6_Witness ==
    /\ imp[1].pc = "done" /\ imp[1].outcome \in {"notfound", "error"}
    /\ data # empty
    /\ GetPath(data, P_deviceSerial) = JStr(<<83, 49>>)
    /\ vacAInvalid

(***************************************************************************)
(* C21: the step of a restore that ends it with success leaves a live      *)
(* state whose header.revDate is todayLocal() of that moment, whatever     *)
(* revision date the payload carried.                                      *)
(***************************************************************************)
C21_RestoreStampsToday ==
    [][RestoreSucceeds
         => GetPath(data', P_revDate) = JStr(todayLocal(now))]_vars

\* a print of day 1, with the revision set that day, was restored on day 2
C21_Witness ==
    /\ imp[1].pc = "done" /\ imp[1].outcome = "restored"
    /\ printed # <<>>
    /\ GetPath(printed[1], P_revision) = JStr(<<66>>)
    /\ GetPath(printed[1], P_revDate) = JStr(<<50, 48, 50, 54, 45, 48, 49, 45, 48, 49>>)
    /\ now = 2
    /\ GetPath(data, P_revision) = JStr(<<66>>)
    /\ GetPath(data, P_revDate) = JStr(<<50, 48, 50, 54, 45, 48, 49, 45, 48, 50>>)

\* every validation flag is down
NoFlags == errors = {} /\ ~vacAInvalid

(***************************************************************************)
(* C29: whatever edits, prints, restores and failed restores came before,  *)
(* reset sets the live state to the default state that was computed at the *)
(* mount of the component and clears every validation flag; the memoized   *)
(* object holds that default state at all times: no operation writes into  *)
(* it.                                                                     *)
(***************************************************************************)
C29_ResetToPristine ==
    /\ [](emptyObj = defaultFormData(1))
    /\ [][reset => (data' = defaultFormData(1) /\ NoFlags')]_vars

\* a reset on day 2 after a restore and an edit: the state is the default
\* of day 1 again
C29_Witness ==
    /\ now = 2
    /\ imp[1].pc = "done"
    /\ imp[1].outcome = "restored"
    /\ dataIsEmpty
    /\ data = defaultFormData(1)
    /\ data # defaultFormData(now)
    /\ NoFlags

(***************************************************************************)
(* Scalars specification: the user restores from documents whose payload  *)
(* is the JSON text of a number (5), a string ("abc"), a boolean (true) or *)
(* null, in one of the three formats, after edits and a refused print.     *)
(***************************************************************************)
ScalarFiles == {"number", "string", "boolean", "null"}
ScalarEdits ==
    { <<P_deviceSerial, JStr(<<83, 49>>)>>, <<P_revision, JStr(<<66>>)>>,
      <<P_comments, JStr(<<181, 937, 32, 177, 32, 8594, 32, 8804>>)>> }
ScalarUpdate == \E e \in ScalarEdits : Update(e[1], e[2])
ScalarVacA == \E raw \in {<<49, 50, 48>>, <<49, 50, 97>>} : VacAChange(raw)
ScalarStart == \E f \in ScalarFiles : ImportStart(1, f)
ScalarAgain == \E f \in ScalarFiles : ImportAgain(1, f)
ScalarNext ==
    \/ ScalarUpdate
    \/ ScalarVacA
    \/ onSavePdf
    \/ Tick
    \/ ScalarStart
    \/ ScalarAgain
    \/ ImportOpen(1)
    \/ ImportLast(1)

\* the step in which the restore from such a document ends
ScalarRestore ==
    imp[1].pc = "page" /\ imp[1].file \in ScalarFiles /\ imp'[1].pc = "done"
\* JSON.parse of the text the decode chain found in the text of the call
LoadedOf(call) == JSONparse(DecodeChain(call.text).jsonStr.text)

(***************************************************************************)
(* C27: when the decoded JSON text parses to a number, a string, a boolean *)
(* or null, mergeWithDefault returns the default state as it is, and the   *)
(* restore ends 'restored': the live state becomes the default state of    *)
(* the day, whatever it was, and the alert is the one of a restore.        *)
(***************************************************************************)
C27_ScalarRestoresDefaults ==
    [][ScalarRestore
         => /\ LoadedOf(imp'[1]).ok
            /\ LoadedOf(imp'[1]).v.k \in {"num", "str", "bool", "null"}
            /\ mergeWithDefault(LoadedOf(imp'[1]).v, now) = defaultFormData(now)
            /\ imp'[1].outcome = "restored"
            /\ imp'[1].alerts = Append(imp[1].alerts, AlertRestored)
            /\ data' = defaultFormData(now)
            /\ vacAInvalid' = FALSE
            /\ errors' = errors]_vars

\* the number 5 restored on day 2 over a form that had been edited and
\* refused a print: the defaults of day 2, the flags of the print kept
C27_Witness ==
    /\ imp[1].pc = "done"
    /\ imp[1].outcome = "restored"
    /\ LoadedOf(imp[1]).v = JNum(5)
    /\ now = 2
    /\ data = defaultFormData(2)
    /\ data # empty
    /\ P_customerOrder \in errors
    /\ P_deviceSerial \notin errors

(***************************************************************************)
(* Print specification: the user fills in the required fields, blanks      *)
(* among the values, and asks for the PDF or the print.                    *)
(***************************************************************************)
PrintEdits ==
    { <<P_apparatusType, JStr(<<>>)>>, <<P_apparatusType, JStr(<<71, 69>>)>>,
      <<P_deviceSerial, JStr(<<32>>)>>, <<P_deviceSerial, JStr(<<83, 49>>)>>,
      <<P_customerOrder, JStr(<<32, 9>>)>>, <<P_customerOrder, JStr(<<55>>)>>,
      <<P_customerOrder, JStr(<<32, 55, 32>>)>> }
PrintUpdate == \E e \in PrintEdits : Update(e[1], e[2])
PrintVacA == \E raw \in {<<>>, <<49, 50, 48>>, <<49, 50, 97>>} : VacAChange(raw)
PrintNext ==
    \/ PrintUpdate
    \/ PrintVacA
    \/ onSavePdf
    \/ onPrint
    \/ reset

\* the text is empty or of white space only
Blank(str) == \A i \in 1..Len(str) : str[i] \in {32, 9, 10, 13}
\* the required fields that are not filled in, and the flagged voltage
Failing ==
    { q \in {P_apparatusType, P_deviceSerial, P_customerOrder, P_vacA} :
        IF q = P_vacA THEN vacAInvalid
        ELSE IF q = P_apparatusType THEN GetPath(data, q) = JStr(<<>>)
        ELSE Blank(GetPath(data, q).v) }

(***************************************************************************)
(* C22: Save as PDF and Print call window.print(), of the page as it is,   *)
(* only when Apparatus Type is not empty, Device Serial # and Customer     *)
(* Order # are not blank after trimming and the Phase A voltage is not     *)
(* flagged; otherwise nothing is printed and the error flags are exactly   *)
(* the failing fields.  Nothing else prints.                               *)
(***************************************************************************)
C22_PrintOnlyWhenValid ==
    [][/\ (onSavePdf \/ onPrint)
           => IF Failing = {}
              THEN printed' = Append(printed, data) /\ errors' = {}
              ELSE printed' = printed /\ errors' = Failing
       /\ printed' # printed => Failing = {}]_vars

\* a print was refused for a customer order of white space alone
C22_Witness ==
    /\ printed = <<>>
    /\ errors = {P_customerOrder}
    /\ GetPath(data, P_customerOrder) = JStr(<<32, 9>>)
    /\ GetPath(data, P_deviceSerial) = JStr(<<83, 49>>)
    /\ GetPath(data, P_apparatusType) = JStr(<<71, 69>>)
    /\ ~vacAInvalid

(***************************************************************************)
(* Rows specification: the user adds and removes rows of section 7 and     *)
(* types into the rows and the header.                                     *)
(***************************************************************************)
RowKeys == <<K_0, K_1>>
RowEdits == { <<K_label, JStr(<<120>>)>>, <<K_label, JStr(<<121>>)>>,
              <<K_a, JNum(5)>> }
\* the onChange of an input of the row idx
RowUpdate ==
    \E i \in 1..Len(GetPath(data, P_rows).v), e \in RowEdits :
        Update(P_rows \o <<RowKeys[i], e[1]>>, e[2])
RowsHeader ==
    \E e \in { <<P_deviceSerial, JStr(<<83, 49>>)>>,
                <<P_customerOrder, JStr(<<55>>)>> } : Update(e[1], e[2])
RowsNext ==
    \/ RowUpdate
    \/ RowsHeader
    \/ AddRow
    \/ RemoveRow
    \/ reset

rows == GetPath(data, P_rows).v
\* every field but the rows is as it was
OnlyRowsChange ==
    /\ setAtPath(data', P_rows, JNull) = setAtPath(data, P_rows, JNull)
    /\ GetPath(data', P_rows).k = "arr"

(***************************************************************************)
(* C23: Add Row appends one blank row at the end of section7.rows, Remove  *)
(* Row removes the last row and is not to be had when there is no row;     *)
(* both leave the other rows, their order and every other field as they    *)
(* were.                                                                   *)
(***************************************************************************)
C23_RowsAtTheEnd ==
    [][/\ AddRow
           => /\ GetPath(data', P_rows).v = rows \o <<BlankRow>>
              /\ OnlyRowsChange
       /\ RemoveRow
           => /\ rows # <<>>
              /\ GetPath(data', P_rows).v \o <<rows[Len(rows)]>> = rows
              /\ OnlyRowsChange]_vars

\* a row was added behind the default's row, and both were filled in
C23_Witness ==
    /\ Len(GetPath(empty, P_rows).v) = 1
    /\ rows = << JObj(<< <<K_label, JStr(<<120>>)>>, <<K_a, JNum(5)>> >>),
                 JObj(<< <<K_label, JStr(<<121>>)>>, <<K_a, JNull>> >>) >>
    /\ GetPath(data, P_deviceSerial) = JStr(<<83, 49>>)

(***************************************************************************)
(* Edit specification: the user edits the header, the comments and the    *)
(* rows, over midnight, and resets the form.                               *)
(***************************************************************************)
\* `section7.rows.${idx}.label`
RowPath(i, key) == P_rows \o <<RowKeys[i], key>>
EditUpdate == \E e \in Edits : Update(e[1], e[2])
EditNext ==
    \/ EditUpdate
    \/ RowUpdate
    \/ AddRow
    \/ Tick
    \/ reset

\* the form state with the field at the path blanked
Blanked(d, path) == setAtPath(d, path, JNull)
\* what update(path, value) leaves: the value at the path, the date of
\* today as revision date when the path is header.revision, every other
\* field as it was, and the objects that were the state and the memoized
\* default with the contents they had
UpdateFrame(path, value) ==
    /\ GetPath(data', path) = value
    /\ IF path = P_revision
       THEN /\ GetPath(data', P_revDate) = JStr(todayLocal(now))
            /\ Blanked(Blanked(data', path), P_revDate)
                 = Blanked(Blanked(data, path), P_revDate)
       ELSE Blanked(data', path) = Blanked(data, path)
    /\ UpdatedOriginal(path, value) = data
    /\ emptyObj' = emptyObj

(***************************************************************************)
(* C28: update(path, value) sets a new state in which the field at path   *)
(* has the value and every other field is as it was; the revision date is  *)
(* set to the date of today when path is header.revision and is left as it *)
(* was for every other path; the object that was the state before, and the *)
(* memoized default when it is that object, keep their contents.           *)
(***************************************************************************)
C28_UpdateFrame ==
    [][/\ \A e \in Edits : Update(e[1], e[2]) => UpdateFrame(e[1], e[2])
       /\ \A i \in 1..Len(rows), e \in RowEdits :
             Update(RowPath(i, e[1]), e[2]) => UpdateFrame(RowPath(i, e[1]), e[2])]_vars

\* the revision was set to B on day 2, on a form that was not restored:
\* the date of day 2 stands next to it
C28_Witness ==
    /\ now = 2
    /\ ~dataIsEmpty
    /\ emptyObj = defaultFormData(1)
    /\ GetPath(data, P_revision) = JStr(<<66>>)
    /\ GetPath(data, P_revDate) = JStr(<<50, 48, 50, 54, 45, 48, 49, 45, 48, 50>>)
    /\ GetPath(data, P_deviceSerial) = JStr(<<83, 49>>)

(***************************************************************************)
(* Race specification: up to MaxCalls calls of handlePdfImport are in      *)
(* flight together, each on a file the user picked, while the user edits   *)
(* and resets the form.  The event loop runs the continuation of a call    *)
(* when the promise it awaits has settled.                                 *)
(***************************************************************************)
RaceFiles == SampleFiles \cup {"blank", "badjson", "notpdf", "damaged"}
RaceEdits ==
    { <<P_deviceSerial, JStr(<<>>)>>, <<P_deviceSerial, JStr(<<83, 49>>)>>,
      <<P_comments, JStr(<<>>)>> }

RaceUpdate == \E e \in RaceEdits : Update(e[1], e[2])
RaceStart == \E c \in Calls, f \in RaceFiles : ImportStart(c, f)
RaceOpen == \E c \in Calls : ImportOpen(c)
RacePage == \E c \in Calls : ImportPage(c)
RaceLast == \E c \in Calls : ImportLast(c)

RaceNext ==
    \/ RaceUpdate
    \/ reset
    \/ RaceStart
    \/ RaceOpen
    \/ RacePage
    \/ RaceLast

\* the call waits for the text of its last page
AtLastPage(c) ==
    imp[c].pc = "page" /\ imp[c].page = NumPages(imp[c].file)
\* the promises of pdf.js settle, and the event loop then runs the
\* continuation: every await of a call returns or throws.  The last
\* conjunct is WF_vars(ImportLast(c)) with its ENABLED written out, the step
\* being enabled exactly when the call waits for its last page.
ExtractionSettles ==
    \A c \in Calls :
        /\ WF_vars(ImportOpen(c))
        /\ WF_vars(ImportPage(c))
        /\ []<>~AtLastPage(c) \/ []<><<ImportLast(c)>>_vars

\* the document of a sample file, and the state a restore of it sets
SampleOf(f) == IF f = "sampleA" THEN SampleA ELSE SampleB
ReconciledOf(f) == setAtPath(SampleOf(f), P_revDate, JStr(todayLocal(now)))
\* the call ends in this step
Ends(c) == imp[c].pc \in {"open", "page"} /\ imp'[c].pc = "done"

(***************************************************************************)
(* C16: the write that happens last wins.  A restore that succeeds sets    *)
(* the live state to the reconciled state of its file, whatever was edited *)
(* or reset or restored by another call while it read the file; a restore  *)
(* that fails leaves the live state, the edits included; so of two         *)
(* restores in flight the one that ends last determines the live state.    *)
(***************************************************************************)
C16_LastWriteWins ==
    [][\A c \in Calls :
         Ends(c) =>
            IF imp'[c].outcome = "restored"
            THEN imp[c].file \in SampleFiles /\ data' = ReconciledOf(imp[c].file)
            ELSE data' = data]_vars

\* both calls have restored, the one of sample A first: the state is B's,
\* and the serial number typed meanwhile is lost
C16_Witness ==
    /\ imp[1].pc = "done" /\ imp[1].outcome = "restored"
    /\ imp[1].text = TextOfPages("sampleA", 2)
    /\ imp[2].pc = "done" /\ imp[2].outcome = "restored"
    /\ imp[2].text = TextOfPages("sampleB", 1)
    /\ data = ReconciledOf("sampleB")
    /\ GetPath(data, P_deviceSerial) = JStr(<<>>)
    /\ GetPath(SampleA, P_deviceSerial) = JStr(<<83, 49>>)

(***************************************************************************)
(* C17: when every await of pdf.js settles, every call of handlePdfImport  *)
(* that has begun ends; it ends as restored, notfound or error, with the   *)
(* one alert of that outcome and no alert before; once ended it does       *)
(* nothing more (no retry); and a rejected getDocument or getTextContent   *)
(* ends it as error with 'Could not read data from PDF.'.                  *)
(***************************************************************************)
InFlight(c) == imp[c].pc \in {"open", "page"}
Rejects(c) ==
    \/ imp[c].pc = "open" /\ NumPages(imp[c].file) = 0
    \/ imp[c].pc = "page" /\ ~Readable(imp[c].file, imp[c].page)
OneOutcome(c) ==
    IF imp[c].pc = "done"
    THEN /\ imp[c].outcome \in {"restored", "notfound", "error"}
         /\ imp[c].alerts = <<AlertOf(imp[c].outcome)>>
    ELSE imp[c].outcome = "" /\ imp[c].alerts = <<>>
C17_RestoreEndsOnce ==
    /\ \A c \in Calls : InFlight(c) ~> (imp[c].pc = "done")
    /\ [](\A c \in Calls : OneOutcome(c))
    /\ [][\A c \in Calls :
             /\ imp[c].pc = "done" => imp'[c] = imp[c]
             /\ (Rejects(c) /\ imp'[c] # imp[c])
                  => /\ imp'[c].pc = "done" /\ imp'[c].outcome = "error"
                     /\ imp'[c].alerts = <<AlertError>>]_vars

\* the three outcomes have occurred, the error by a rejected getTextContent
C17_Witness ==
    /\ imp[1].pc = "done" /\ imp[1].outcome = "error"
    /\ imp[1].alerts = <<"Could not read data from PDF.">>
    /\ imp[1].tried = <<>>
    /\ imp[2].pc = "done" /\ imp[2].outcome = "notfound"
    /\ Len(imp[2].alerts) = 1

(***************************************************************************)
(* C18: a call that waits for page i holds the texts of the pages 1..i-1,  *)
(* each the items joined by single spaces and a newline after them, in     *)
(* this order; each settled page adds its text and moves to the next page; *)
(* no decoder has run before the last page is added, and the decoders get  *)
(* the text of the pages 1..numPages.                                      *)
(***************************************************************************)
PagesInOrder(c) ==
    CASE imp[c].pc = "page" ->
           /\ imp[c].page \in 1..NumPages(imp[c].file)
           /\ imp[c].text = TextOfPages(imp[c].file, imp[c].page - 1)
           /\ imp[c].tried = <<>>
      [] imp[c].pc = "done" -> TRUE
      [] OTHER -> imp[c].text = <<>> /\ imp[c].tried = <<>>
PageStep(c) ==
    (imp[c].pc = "page" /\ imp'[c] # imp[c])
      => IF imp'[c].pc = "page"
         THEN /\ imp'[c].page = imp[c].page + 1
              /\ imp'[c].text
                   = imp[c].text \o PageText(FilePage(imp[c].file, imp[c].page))
         ELSE /\ imp[c].page = NumPages(imp[c].file)
              /\ imp'[c].tried # <<>>
                   => imp'[c].text
                        = TextOfPages(imp[c].file, NumPages(imp[c].file))
              /\ imp'[c].tried = <<>> => ~Readable(imp[c].file, imp[c].page)
C18_PageOrder ==
    /\ [](\A c \in Calls : PagesInOrder(c))
    /\ [][\A c \in Calls : PageStep(c)]_vars

\* the two pages of sample A were given to the decoders as one text
C18_Witness ==
    /\ imp[1].pc = "done"
    /\ imp[1].tried # <<>>
    /\ imp[1].text
         = Filler \o <<10>> \o Filler \o <<32>> \o invisiblePayload(SampleA)
             \o <<32>> \o visibleMarkerPayload(SampleA) \o <<10>>

(***************************************************************************)
(* C19: in every reachable state the marker text and the zero-width text   *)
(* rendered for printing both decode to the same JSON text, and that text  *)
(* is JSON.stringify of the current form state.                            *)
(***************************************************************************)
C19_PayloadsOfLiveState ==
    \E json \in {JSONstringify(data)} :
        /\ tryMarkerPayload(visibleMarkerPayload(data)) = Found(json)
        /\ decodeZWFromText(invisiblePayload(data)) = Found(json)

\* a restore has set the state, and an edit has changed it since
C19_Witness ==
    /\ \E c \in Calls : imp[c].pc = "done" /\ imp[c].outcome = "restored"
    /\ GetPath(data, P_revision) = JStr(<<66>>)
    /\ GetPath(data, P_deviceSerial) = JStr(<<83, 49>>)
    /\ decodeZWFromText(invisiblePayload(data)) = Found(JSONstringify(data))

Init == CodecStart /\ MergeStart /\ AppStart /\ BridgeStart /\ VariantStart
SpecCodec == Init /\ [][CodecNext]_vars
SpecMerge == Init /\ [][MergeNext]_vars
SpecBridge == Init /\ [][BridgeNext]_vars
SpecVariants == Init /\ [][VariantNext]_vars

SpecScalars == Init /\ [][ScalarNext]_vars
SpecEdit == Init /\ [][EditNext]_vars
SpecPrint == Init /\ [][PrintNext]_vars
SpecRows == Init /\ [][RowsNext]_vars
SpecRace == Init /\ [][RaceNext]_vars
SpecLive == Init /\ [][RaceNext]_vars /\ ExtractionSettles

Next == AppNext
Spec == Init /\ [][Next]_vars
=============================================================================
